---- MODULE Spec2Model ----
(***************************************************************************)
(* Model of chatbotclima (src/app.py): the text normaliser, the country    *)
(* registry, the entity extractor, the time-zone resolver, the retrying    *)
(* HTTP client and the /chat route with the dialogue router.               *)
(*                                                                         *)
(* Python strings are TLA+ strings; TLC evaluates Len, SubSeq and \o on    *)
(* them, so substring tests and per-character replacement are computed as  *)
(* the code computes them.  Python's None is the empty tuple and a present *)
(* value x is the one-element tuple <<x>>.                                 *)
(***************************************************************************)
EXTENDS Integers, Sequences, FiniteSets, TLC

VARIABLES
  entrada,     \* text functions: the input drawn for the function under test
  resultado,   \* text functions: what the function returned
  zh_args,     \* obtener_zona_horaria: arguments and environment of the call
  zh_ret,      \* obtener_zona_horaria: the returned dict
  api,         \* _make_api_request: position, attempts made, sleeps, outcome
  pc,          \* /chat: position of the request being handled
  solicitud,   \* /chat: the request body being handled
  loc,         \* /chat: the handler's local variables
  llamadas,    \* /chat: external lookups made while handling the request
  respuesta,   \* /chat: the reply sent, [status, cuerpo]
  memo,        \* lru_cache of obtener_hora_ciudad, least recently used first
  atendidas,   \* /chat: number of requests answered so far
  hilos,       \* concurrent obtener_hora_ciudad calls: each thread's position
  historia     \* order in which cache entries were stored or hit, calls begun

varsTexto == << entrada, resultado >>
varsZona  == << zh_args, zh_ret >>
varsApi   == << api >>
varsChat  == << pc, solicitud, loc, llamadas, respuesta, memo, atendidas >>
varsMemo  == << hilos, historia >>
vars      == << entrada, resultado, zh_args, zh_ret, api,
                pc, solicitud, loc, llamadas, respuesta, memo, atendidas,
                hilos, historia >>

None == << >>
Some(x) == << x >>

(***************************************************************************)
(* Python string primitives                                                *)
(***************************************************************************)
Mayusculas == "ABCDEFGHIJKLMNOPQRSTUVWXYZÁÉÍÓÚÜÑÀÈÌÒÙ"
Minusculas == "abcdefghijklmnopqrstuvwxyzáéíóúüñàèìòù"

\* c translated by the table desde -> hacia (strings of equal length), or c itself
Traducir(c, desde, hacia) ==
  IF \E i \in 1..Len(desde) : SubSeq(desde, i, i) = c
    THEN LET i == CHOOSE j \in 1..Len(desde) : SubSeq(desde, j, j) = c
         IN  SubSeq(hacia, i, i)
    ELSE c

RECURSIVE TraducirTodo(_, _, _)
TraducirTodo(s, desde, hacia) ==
  IF s = "" THEN ""
  ELSE Traducir(SubSeq(s, 1, 1), desde, hacia)
         \o TraducirTodo(SubSeq(s, 2, Len(s)), desde, hacia)

\* str.lower() and str.upper() over the alphabet of the model
lower(s) == TraducirTodo(s, Mayusculas, Minusculas)
upper(s) == TraducirTodo(s, Minusculas, Mayusculas)

\* a in b (Python substring test; the empty string is in every string)
Contiene(a, b) ==
  \E i \in 0..(Len(b) - Len(a)) : SubSeq(b, i + 1, i + Len(a)) = a

EsBlanco(c) == c = " "

\* str.strip()
RECURSIVE lstrip(_)
lstrip(s) ==
  IF s # "" /\ EsBlanco(SubSeq(s, 1, 1)) THEN lstrip(SubSeq(s, 2, Len(s))) ELSE s
RECURSIVE rstrip(_)
rstrip(s) ==
  IF s # "" /\ EsBlanco(SubSeq(s, Len(s), Len(s)))
    THEN rstrip(SubSeq(s, 1, Len(s) - 1)) ELSE s
strip(s) == rstrip(lstrip(s))

\* str.split(): the maximal runs of non-blank characters, in order
RECURSIVE PrimerBlanco(_, _)
PrimerBlanco(s, i) ==
  IF i > Len(s) THEN Len(s) + 1
  ELSE IF EsBlanco(SubSeq(s, i, i)) THEN i ELSE PrimerBlanco(s, i + 1)
RECURSIVE split(_)
split(s) ==
  LET t == lstrip(s) IN
  IF t = "" THEN << >>
  ELSE LET k == PrimerBlanco(t, 1)
       IN  << SubSeq(t, 1, k - 1) >> \o split(SubSeq(t, k, Len(t)))

\* str.startswith(prefix)
startswith(s, p) == Len(p) <= Len(s) /\ SubSeq(s, 1, Len(p)) = p

(***************************************************************************)
(* Configuration tables                                                    *)
(***************************************************************************)
SALUDOS == << "hola", "buenos días", "buenas tardes", "buenas noches", "hey", "saludos" >>
PALABRAS_CLIMA == << "clima", "tiempo", "temperatura", "pronóstico", "hace calor", "hace frío" >>
PALABRAS_HORA == << "hora", "qué horas son", "dime la hora" >>

\* dict in insertion order: iteration over PAISES_INFO visits the keys in this order
PAISES_INFO ==
  << [pais |-> "chile", capital |-> "Santiago", codigo |-> "CL"],
     [pais |-> "argentina", capital |-> "Buenos Aires", codigo |-> "AR"],
     [pais |-> "españa", capital |-> "Madrid", codigo |-> "ES"],
     [pais |-> "mexico", capital |-> "Ciudad de México", codigo |-> "MX"],
     [pais |-> "colombia", capital |-> "Bogotá", codigo |-> "CO"],
     [pais |-> "peru", capital |-> "Lima", codigo |-> "PE"],
     [pais |-> "venezuela", capital |-> "Caracas", codigo |-> "VE"],
     [pais |-> "ecuador", capital |-> "Quito", codigo |-> "EC"],
     [pais |-> "bolivia", capital |-> "La Paz", codigo |-> "BO"],
     [pais |-> "paraguay", capital |-> "Asunción", codigo |-> "PY"],
     [pais |-> "uruguay", capital |-> "Montevideo", codigo |-> "UY"],
     [pais |-> "brasil", capital |-> "Brasilia", codigo |-> "BR"],
     [pais |-> "estados unidos", capital |-> "Washington", codigo |-> "US"],
     [pais |-> "canada", capital |-> "Ottawa", codigo |-> "CA"],
     [pais |-> "francia", capital |-> "París", codigo |-> "FR"],
     [pais |-> "italia", capital |-> "Roma", codigo |-> "IT"],
     [pais |-> "alemania", capital |-> "Berlín", codigo |-> "DE"],
     [pais |-> "reino unido", capital |-> "Londres", codigo |-> "GB"],
     [pais |-> "japon", capital |-> "Tokio", codigo |-> "JP"],
     [pais |-> "china", capital |-> "Pekín", codigo |-> "CN"],
     [pais |-> "rusia", capital |-> "Moscú", codigo |-> "RU"] >>

Paises == { PAISES_INFO[i].pais : i \in DOMAIN PAISES_INFO }
\* PAISES_INFO[clave] for a clave in Paises
InfoPais(clave) ==
  PAISES_INFO[CHOOSE i \in DOMAIN PAISES_INFO : PAISES_INFO[i].pais = clave]

ZONAS_HORARIAS_PAIS ==
  << [codigo |-> "RU",
      zonas |-> << "Europe/Moscow",
                   "Europe/Kaliningrad",
                   "Europe/Samara",
                   "Asia/Yekaterinburg",
                   "Asia/Omsk",
                   "Asia/Krasnoyarsk",
                   "Asia/Irkutsk",
                   "Asia/Yakutsk",
                   "Asia/Vladivostok",
                   "Asia/Magadan",
                   "Asia/Kamchatka" >>],
     [codigo |-> "US",
      zonas |-> << "America/New_York",
                   "America/Chicago",
                   "America/Denver",
                   "America/Los_Angeles",
                   "America/Anchorage",
                   "Pacific/Honolulu" >>],
     [codigo |-> "ES",
      zonas |-> << "Europe/Madrid" >>],
     [codigo |-> "FR",
      zonas |-> << "Europe/Paris" >>],
     [codigo |-> "DE",
      zonas |-> << "Europe/Berlin" >>],
     [codigo |-> "IT",
      zonas |-> << "Europe/Rome" >>],
     [codigo |-> "GB",
      zonas |-> << "Europe/London" >>],
     [codigo |-> "PT",
      zonas |-> << "Europe/Lisbon" >>],
     [codigo |-> "MX",
      zonas |-> << "America/Mexico_City",
                   "America/Tijuana",
                   "America/Cancun" >>],
     [codigo |-> "BR",
      zonas |-> << "America/Sao_Paulo",
                   "America/Manaus",
                   "America/Belem" >>],
     [codigo |-> "AR",
      zonas |-> << "America/Argentina/Buenos_Aires" >>],
     [codigo |-> "CL",
      zonas |-> << "America/Santiago" >>],
     [codigo |-> "CO",
      zonas |-> << "America/Bogota" >>],
     [codigo |-> "PE",
      zonas |-> << "America/Lima" >>],
     [codigo |-> "EC",
      zonas |-> << "America/Guayaquil" >>],
     [codigo |-> "VE",
      zonas |-> << "America/Caracas" >>],
     [codigo |-> "BO",
      zonas |-> << "America/La_Paz" >>],
     [codigo |-> "PY",
      zonas |-> << "America/Asuncion" >>],
     [codigo |-> "UY",
      zonas |-> << "America/Montevideo" >>],
     [codigo |-> "CR",
      zonas |-> << "America/Costa_Rica" >>],
     [codigo |-> "DO",
      zonas |-> << "America/Santo_Domingo" >>],
     [codigo |-> "PA",
      zonas |-> << "America/Panama" >>],
     [codigo |-> "HN",
      zonas |-> << "America/Tegucigalpa" >>],
     [codigo |-> "SV",
      zonas |-> << "America/El_Salvador" >>],
     [codigo |-> "NI",
      zonas |-> << "America/Managua" >>],
     [codigo |-> "GT",
      zonas |-> << "America/Guatemala" >>] >>

CodigosConZonas == { ZONAS_HORARIAS_PAIS[i].codigo : i \in DOMAIN ZONAS_HORARIAS_PAIS }
\* ZONAS_HORARIAS_PAIS[codigo] for a codigo in CodigosConZonas
ZonasDe(codigo) ==
  ZONAS_HORARIAS_PAIS[CHOOSE i \in DOMAIN ZONAS_HORARIAS_PAIS :
                         ZONAS_HORARIAS_PAIS[i].codigo = codigo].zonas

(***************************************************************************)
(* TextNormalizer and CountryRegistry                                      *)
(***************************************************************************)
\* the dict reemplazos, as two aligned strings
ReemplazosDesde == "áéíóúüñàèìòù"
ReemplazosHacia == "aeiouunaeiou"

_eliminar_tildes(texto) == TraducirTodo(lower(texto), ReemplazosDesde, ReemplazosHacia)

variaciones_paises ==
  << << "usa", "estados unidos" >>,
     << "estados unidos de america", "estados unidos" >>,
     << "eeuu", "estados unidos" >>,
     << "united states", "estados unidos" >>,
     << "us", "estados unidos" >>,
     << "méxico", "mexico" >>,
     << "república dominicana", "republica dominicana" >>,
     << "rd", "republica dominicana" >>,
     << "vzla", "venezuela" >>,
     << "arg", "argentina" >>,
     << "chi", "chile" >>,
     << "col", "colombia" >>,
     << "per", "peru" >>,
     << "uru", "uruguay" >>,
     << "par", "paraguay" >>,
     << "ecu", "ecuador" >>,
     << "bol", "bolivia" >>,
     << "españa", "espana" >>,
     << "uk", "reino unido" >>,
     << "gran bretaña", "reino unido" >>,
     << "england", "reino unido" >>,
     << "francia", "francia" >>,
     << "fr", "francia" >>,
     << "alemania", "alemania" >>,
     << "de", "alemania" >>,
     << "italia", "italia" >>,
     << "it", "italia" >>,
     << "portugal", "portugal" >>,
     << "pt", "portugal" >>,
     << "japón", "japon" >>,
     << "jp", "japon" >>,
     << "china", "china" >>,
     << "cn", "china" >>,
     << "corea del sur", "corea del sur" >>,
     << "kr", "corea del sur" >>,
     << "australia", "australia" >>,
     << "au", "australia" >>,
     << "nueva zelanda", "nueva zelanda" >>,
     << "nz", "nueva zelanda" >> >>

ClavesVariaciones == { variaciones_paises[i][1] : i \in DOMAIN variaciones_paises }
\* variaciones_paises.get(texto, texto)
VariacionGet(texto) ==
  IF texto \in ClavesVariaciones
    THEN variaciones_paises[CHOOSE i \in DOMAIN variaciones_paises :
                               variaciones_paises[i][1] = texto][2]
    ELSE texto

\* the partial-match loop: the first registry key, in registry order, that
\* contains the text or is contained in it
CoincidenciaParcial(pais_normalizado) ==
  LET hits == { i \in DOMAIN PAISES_INFO :
                  \/ Contiene(pais_normalizado, PAISES_INFO[i].pais)
                  \/ Contiene(PAISES_INFO[i].pais, pais_normalizado) }
  IN  IF hits = {} THEN None
      ELSE Some(PAISES_INFO[CHOOSE i \in hits : \A j \in hits : i <= j].pais)

\* Mutant of _normalizar_pais: the target of an alias is returned without
\* testing that it is a registry key.
_normalizar_pais_sin_registro(texto) ==
  LET t == strip(lower(texto))
      pais_normalizado == VariacionGet(t)
  IN  IF pais_normalizado \in Paises \/ t \in ClavesVariaciones
        THEN Some(pais_normalizado)
      ELSE CoincidenciaParcial(pais_normalizado)

_normalizar_pais(texto) ==
  LET t == strip(lower(texto))
      pais_normalizado == VariacionGet(t)
  IN  IF pais_normalizado \in Paises THEN Some(pais_normalizado)
      ELSE CoincidenciaParcial(pais_normalizado)

(***************************************************************************)
(* IntentExtractor                                                         *)
(***************************************************************************)
patrones_ubicacion == { "en", "de", "a" }

\* any(p in texto for p in frases)
AlgunaEn(frases, texto) == \E i \in DOMAIN frases : Contiene(frases[i], texto)

\* pass 1: the country after the first marker whose next token resolves
UbicacionTrasPatron(texto_tokenizado) ==
  LET hits == { i \in 1..(Len(texto_tokenizado) - 1) :
                  /\ texto_tokenizado[i] \in patrones_ubicacion
                  /\ _normalizar_pais(texto_tokenizado[i + 1]) # None }
  IN  IF hits = {} THEN None
      ELSE _normalizar_pais(
             texto_tokenizado[(CHOOSE i \in hits : \A j \in hits : i <= j) + 1])

\* pass 2: the first token that resolves on its own
UbicacionEnTexto(texto_tokenizado) ==
  LET hits == { i \in DOMAIN texto_tokenizado :
                  _normalizar_pais(texto_tokenizado[i]) # None }
  IN  IF hits = {} THEN None
      ELSE _normalizar_pais(
             texto_tokenizado[CHOOSE i \in hits : \A j \in hits : i <= j])

\* Mutant of extraer_entidades: the token-by-token pass runs first and the
\* marker pass only when it found nothing.
extraer_entidades_pasadas_invertidas(texto) ==
  IF texto = ""
    THEN [ubicacion |-> None, es_saludo |-> FALSE, es_clima |-> FALSE,
          es_hora |-> FALSE, es_pais |-> FALSE]
    ELSE LET texto_limpio == _eliminar_tildes(lower(texto))
             texto_tokenizado == split(texto_limpio)
             paso2 == UbicacionEnTexto(texto_tokenizado)
             ubicacion == IF paso2 # None THEN paso2
                          ELSE UbicacionTrasPatron(texto_tokenizado)
         IN  [ubicacion |-> ubicacion,
              es_saludo |-> AlgunaEn(SALUDOS, texto_limpio),
              es_clima  |-> AlgunaEn(PALABRAS_CLIMA, texto_limpio),
              es_hora   |-> AlgunaEn(PALABRAS_HORA, texto_limpio),
              es_pais   |-> ubicacion # None]

extraer_entidades(texto) ==
  IF texto = ""
    THEN [ubicacion |-> None, es_saludo |-> FALSE, es_clima |-> FALSE,
          es_hora |-> FALSE, es_pais |-> FALSE]
    ELSE LET texto_limpio == _eliminar_tildes(lower(texto))
             texto_tokenizado == split(texto_limpio)
             paso1 == UbicacionTrasPatron(texto_tokenizado)
             ubicacion == IF paso1 # None THEN paso1
                          ELSE UbicacionEnTexto(texto_tokenizado)
         IN  [ubicacion |-> ubicacion,
              es_saludo |-> AlgunaEn(SALUDOS, texto_limpio),
              es_clima  |-> AlgunaEn(PALABRAS_CLIMA, texto_limpio),
              es_hora   |-> AlgunaEn(PALABRAS_HORA, texto_limpio),
              es_pais   |-> ubicacion # None]

(***************************************************************************)
(* Inputs of the text functions                                            *)
(***************************************************************************)
\* s with its first unaccented vowel given an acute accent
RECURSIVE ConTilde(_)
ConTilde(s) ==
  IF s = "" THEN ""
  ELSE IF Contiene(SubSeq(s, 1, 1), "aeiou")
         THEN Traducir(SubSeq(s, 1, 1), "aeiou", "áéíóú") \o SubSeq(s, 2, Len(s))
         ELSE SubSeq(s, 1, 1) \o ConTilde(SubSeq(s, 2, Len(s)))

SinTildes(s) == TraducirTodo(s, ReemplazosDesde, ReemplazosHacia)

FormasAlias == { "tal_cual", "mayusculas", "sin_tildes", "con_tilde" }
Variante(s, forma) ==
  CASE forma = "tal_cual"   -> s
    [] forma = "mayusculas" -> upper(s)
    [] forma = "sin_tildes" -> SinTildes(s)
    [] forma = "con_tilde"  -> ConTilde(s)

\* how each registry country is written in Spanish, aligned with PAISES_INFO
NombreEscrito ==
  << "Chile", "Argentina", "España", "México", "Colombia", "Perú", "Venezuela",
     "Ecuador", "Bolivia", "Paraguay", "Uruguay", "Brasil", "Estados Unidos",
     "Canadá", "Francia", "Italia", "Alemania", "Reino Unido", "Japón", "China",
     "Rusia" >>
FormasNombre == { "acentuado", "sin_acentos" }
SaludosEjemplo == { "Hola", "Hey" }
ClimaEjemplo == { "clima", "temperatura" }

\* a message shaped like "Hola, ¿qué clima hace en España?"
MensajeEjemplo(saludo, clima, nombre) ==
  saludo \o ", ¿qué " \o clima \o " hace en " \o nombre \o "?"

EntradasAlias ==
  { [clase |-> "alias", k |-> k, forma |-> f,
     texto |-> Variante(variaciones_paises[k][1], f)] :
      k \in DOMAIN variaciones_paises, f \in FormasAlias }

EntradasEjemplo ==
  UNION { { [clase |-> "ejemplo", k |-> k, forma |-> f,
             texto |-> MensajeEjemplo(s, c,
                         IF f = "acentuado" THEN NombreEscrito[k]
                                            ELSE SinTildes(NombreEscrito[k]))] :
              s \in SaludosEjemplo, c \in ClimaEjemplo } :
          k \in DOMAIN PAISES_INFO, f \in FormasNombre }

\* messages of up to MaxTokens words: markers, countries and a word that is
\* neither
MaxTokens == 4
Vocabulario == { "en", "de", "chile", "peru", "zzz" }
RECURSIVE Frases(_)
Frases(n) ==
  IF n = 1 THEN Vocabulario
  ELSE { f \o " " \o v : f \in Frases(n - 1), v \in Vocabulario }
EntradasPasadas ==
  UNION { { [clase |-> "pasadas", k |-> n, forma |-> "tal_cual", texto |-> t] :
              t \in Frases(n) } : n \in 1..MaxTokens }

\* the empty text, blank text, city names, ordinary words, and arguments that
\* are not text
\* (forma names the value; texto is not read for them)
EntradasBorde ==
  { [clase |-> "borde", k |-> 0, forma |-> "tal_cual", texto |-> t] :
      t \in { "", " ", "paris", "clima en paris", "hora en Tokio", "Santiago de Chile",
              "gracias", "qué hora es", "clima de paris", "es", "a", "y" } }
    \cup { [clase |-> "no_texto", k |-> 0, forma |-> f, texto |-> ""] :
             f \in { "None", "0", "42", "[]", "['chile']" } }

\* a message consisting of one phrase of SALUDOS, PALABRAS_CLIMA or PALABRAS_HORA
\* (forma names the list, k the position in it)
ListaDeFrases(forma) ==
  CASE forma = "SALUDOS" -> SALUDOS
    [] forma = "PALABRAS_CLIMA" -> PALABRAS_CLIMA
    [] forma = "PALABRAS_HORA" -> PALABRAS_HORA
EntradasFrases ==
  UNION { { [clase |-> "frase", k |-> k, forma |-> f, texto |-> ListaDeFrases(f)[k]] :
              k \in DOMAIN ListaDeFrases(f) } :
          f \in { "SALUDOS", "PALABRAS_CLIMA", "PALABRAS_HORA" } }

Entradas ==
  EntradasAlias \cup EntradasEjemplo \cup EntradasPasadas \cup EntradasBorde
    \cup EntradasFrases

\* what extraer_entidades returns for an argument that is empty or not a str
EntidadesVacias ==
  [ubicacion |-> None, es_saludo |-> FALSE, es_clima |-> FALSE, es_hora |-> FALSE,
   es_pais |-> FALSE]

SinResultado == [op |-> "ninguna", valor |-> None]

(***************************************************************************)
(* TimezoneResolver                                                        *)
(***************************************************************************)
\* The zones pytz.timezone accepts, each with its standard offset from UTC in
\* hours; any other identifier raises UnknownTimeZoneError.
ZonasPytz ==
  << << "Europe/Moscow", 3 >>, << "Europe/Kaliningrad", 2 >>, << "Europe/Samara", 4 >>,
     << "Asia/Yekaterinburg", 5 >>, << "Asia/Omsk", 6 >>, << "Asia/Krasnoyarsk", 7 >>,
     << "Asia/Irkutsk", 8 >>, << "Asia/Yakutsk", 9 >>, << "Asia/Vladivostok", 10 >>,
     << "Asia/Magadan", 11 >>, << "Asia/Kamchatka", 12 >>,
     << "America/New_York", -5 >>, << "America/Chicago", -6 >>, << "America/Denver", -7 >>,
     << "America/Los_Angeles", -8 >>, << "America/Anchorage", -9 >>,
     << "Pacific/Honolulu", -10 >>,
     << "Europe/Madrid", 1 >>, << "Europe/Paris", 1 >>, << "Europe/Berlin", 1 >>,
     << "Europe/Rome", 1 >>, << "Europe/London", 0 >>, << "Europe/Lisbon", 0 >>,
     << "America/Mexico_City", -6 >>, << "America/Tijuana", -8 >>, << "America/Cancun", -5 >>,
     << "America/Sao_Paulo", -3 >>, << "America/Manaus", -4 >>, << "America/Belem", -3 >>,
     << "America/Argentina/Buenos_Aires", -3 >>, << "America/Santiago", -4 >>,
     << "America/Bogota", -5 >>, << "America/Lima", -5 >>, << "America/Guayaquil", -5 >>,
     << "America/Caracas", -4 >>, << "America/La_Paz", -4 >>, << "America/Asuncion", -3 >>,
     << "America/Montevideo", -3 >>, << "America/Costa_Rica", -6 >>,
     << "America/Santo_Domingo", -4 >>, << "America/Panama", -5 >>,
     << "America/Tegucigalpa", -6 >>, << "America/El_Salvador", -6 >>,
     << "America/Managua", -6 >>, << "America/Guatemala", -6 >>,
     << "America/Toronto", -5 >>, << "Asia/Tokyo", 9 >>, << "Asia/Shanghai", 8 >> >>

ZonasReconocidas == { ZonasPytz[i][1] : i \in DOMAIN ZonasPytz }
DesfaseUTC(zona) ==
  ZonasPytz[CHOOSE i \in DOMAIN ZonasPytz : ZonasPytz[i][1] = zona][2]

\* datetime.now(pytz.UTC).astimezone(timezone): reloj is the UTC wall clock
\* [hora, minuto, dia], dia 1..7 for Monday..Sunday
HoraLocal(reloj, zona) ==
  LET h == reloj.hora + DesfaseUTC(zona)
  IN  [hora   |-> (h + 24) % 24,
       minuto |-> reloj.minuto,
       dia    |-> IF h < 0 THEN ((reloj.dia + 5) % 7) + 1
                  ELSE IF h >= 24 THEN (reloj.dia % 7) + 1
                  ELSE reloj.dia]

Digitos == "0123456789"
\* "%02d"
DosDigitos(n) ==
  SubSeq(Digitos, (n \div 10) + 1, (n \div 10) + 1)
    \o SubSeq(Digitos, (n % 10) + 1, (n % 10) + 1)

\* strftime("%H:%M")
FormatoHora(t) == DosDigitos(t.hora) \o ":" \o DosDigitos(t.minuto)
\* strftime("%I:%M %p").lower().replace("pm", "p.m.").replace("am", "a.m.")
FormatoHora12(t) ==
  DosDigitos(IF t.hora % 12 = 0 THEN 12 ELSE t.hora % 12) \o ":"
    \o DosDigitos(t.minuto) \o (IF t.hora < 12 THEN " a.m." ELSE " p.m.")

\* Mutant of MomentoDelDia: the upper limits of morning and afternoon are
\* inclusive.
MomentoDelDiaLimitesCorridos(hora_num) ==
  IF 5 <= hora_num /\ hora_num <= 12 THEN "de la mañana"
  ELSE IF 12 < hora_num /\ hora_num <= 20 THEN "de la tarde"
  ELSE "de la noche"

MomentoDelDia(hora_num) ==
  IF 5 <= hora_num /\ hora_num < 12 THEN "de la mañana"
  ELSE IF 12 <= hora_num /\ hora_num < 20 THEN "de la tarde"
  ELSE "de la noche"

\* strftime("%A") followed by the dict dias_es
dias_es ==
  << << "Monday", "lunes" >>, << "Tuesday", "martes" >>, << "Wednesday", "miércoles" >>,
     << "Thursday", "jueves" >>, << "Friday", "viernes" >>, << "Saturday", "sábado" >>,
     << "Sunday", "domingo" >> >>

\* Mutant of ZonaElegida: the coordinates are always looked up, whatever the
\* country hint.
ZonaElegidaPorCoordenadas(lat, lon, pais_usuario, tf) ==
  [zona |-> tf.zona, exc |-> tf.exc, consultas |-> << [lat |-> lat, lon |-> lon] >>]

\* self.tf.timezone_at(lat=lat, lng=lon): tf is what the finder answers for the
\* point, [zona |-> None or <<id>>, exc |-> None or <<message>>]
\* The zone the resolver settles on, and the finder lookups it made.
ZonaElegida(lat, lon, pais_usuario, tf) ==
  LET porCoordenadas ==
        [zona |-> tf.zona, exc |-> tf.exc, consultas |-> << [lat |-> lat, lon |-> lon] >>]
  IN  IF pais_usuario # None /\ pais_usuario[1] # ""
         /\ lower(pais_usuario[1]) \in Paises
        THEN LET codigo_pais == InfoPais(lower(pais_usuario[1])).codigo
             IN  IF codigo_pais \in CodigosConZonas
                   THEN [zona |-> Some(ZonasDe(codigo_pais)[1]), exc |-> None,
                         consultas |-> << >>]
                   ELSE porCoordenadas
        ELSE porCoordenadas

\* Mutant of obtener_zona_horaria: the message for an unrecognized zone does
\* not name the zone, and a missing zone falls back to Europe/London.
obtener_zona_horaria_sin_motivo(lat, lon, codigo_pais, pais_usuario, tf, reloj) ==
  LET e == ZonaElegida(lat, lon, pais_usuario, tf)
      zona == IF e.zona = None \/ e.zona = Some("") THEN "Europe/London" ELSE e.zona[1]
      ret ==
        IF e.exc # None THEN [error |-> e.exc[1]]
        ELSE IF zona \notin ZonasReconocidas
          THEN [error |-> "Zona horaria no reconocida"]
        ELSE LET local_time == HoraLocal(reloj, zona)
             IN  [timezone |-> zona,
                  time     |-> FormatoHora(local_time),
                  time_12  |-> FormatoHora12(local_time),
                  moment   |-> MomentoDelDia(local_time.hora),
                  weekday  |-> dias_es[local_time.dia][2]]
  IN  [ret |-> ret, consultas |-> e.consultas]

\* Returns [ret |-> the dict returned, consultas |-> the finder lookups made].
\* codigo_pais is a parameter the body overwrites before any read.
obtener_zona_horaria(lat, lon, codigo_pais, pais_usuario, tf, reloj) ==
  LET e == ZonaElegida(lat, lon, pais_usuario, tf)
      ret ==
        IF e.exc # None THEN [error |-> e.exc[1]]
        ELSE IF e.zona = None \/ e.zona = Some("")
          THEN [error |-> "No se pudo determinar la zona horaria"]
        ELSE IF e.zona[1] \notin ZonasReconocidas
          THEN [error |-> "Zona horaria no reconocida: '" \o e.zona[1] \o "'"]
        ELSE LET local_time == HoraLocal(reloj, e.zona[1])
             IN  [timezone |-> e.zona[1],
                  time     |-> FormatoHora(local_time),
                  time_12  |-> FormatoHora12(local_time),
                  moment   |-> MomentoDelDia(local_time.hora),
                  weekday  |-> dias_es[local_time.dia][2]]
  IN  [ret |-> ret, consultas |-> e.consultas]

(***************************************************************************)
(* Inputs of the time-zone resolver                                        *)
(***************************************************************************)
\* (lat, lon) pairs in tenths of a degree: Santiago, Vladivostok, the Gulf of
\* Guinea
Puntos == { << -334, -707 >>, << 431, 1319 >>, << 0, 0 >> }
CodigosArg == { None, Some("RU"), Some("CL") }
PistasPais ==
  { None, Some(""), Some("RUSIA"), Some("Rusia"), Some("moscu"), Some("portugal"),
    Some("méxico") }
    \cup { Some(p) : p \in Paises }
\* what the finder may answer: no zone, a zone pytz knows, a zone it does not
RespuestasTf ==
  { [zona |-> None, exc |-> None],
    [zona |-> Some("America/Santiago"), exc |-> None],
    [zona |-> Some("Asia/Vladivostok"), exc |-> None],
    [zona |-> Some("Europe/Kyiv"), exc |-> None],
    [zona |-> None, exc |-> Some("timezone_at: lookup failed")] }
Relojes ==
  { [hora |-> h, minuto |-> m, dia |-> d] :
      h \in 0..23, m \in { 5 }, d \in { 1, 7 } }

SinLlamadaZona == [estado |-> "ninguna"]

(***************************************************************************)
(* The retrying HTTP client                                                *)
(***************************************************************************)
TIMEOUT == 15
MAX_RETRIES == 3

GEOCODING_ENDPOINT == "/geo/1.0/direct"
WEATHER_ENDPOINT == "/data/2.5/weather"
REVERSE_GEOCODING_ENDPOINT == "/geo/1.0/reverse"
Endpoints == { GEOCODING_ENDPOINT, WEATHER_ENDPOINT, REVERSE_GEOCODING_ENDPOINT }

\* One answer of requests.get followed by response.json():
\*   transporte: requests.get raised (no connection, timeout after TIMEOUT s)
\*   status:     the status code of the response received otherwise
\*   cuerpo:     None when response.json() raises, else <<the decoded body>>
FalloTransporte == [transporte |-> TRUE, status |-> 0, cuerpo |-> None]
Respuesta(status, cuerpo) == [transporte |-> FALSE, status |-> status, cuerpo |-> cuerpo]

\* the text of the exception one failed attempt ends with
MensajeFallo(r) ==
  IF r.transporte THEN "ConnectionError"
  ELSE IF r.cuerpo = None THEN "JSONDecodeError"
  ELSE "Error en la API: "
         \o (IF "message" \in DOMAIN r.cuerpo[1] THEN r.cuerpo[1].message
             ELSE "Error desconocido")

\* the attempt raised inside the try block
IntentoFalla(r) == r.transporte \/ r.cuerpo = None \/ r.status # 200

ApiInactivo ==
  [pc |-> "inactivo", endpoint |-> "", attempt |-> 0, traza |-> << >>,
   ret |-> None, error |-> None]

ApiInicial(endpoint) ==
  [pc |-> "intento", endpoint |-> endpoint, attempt |-> 0, traza |-> << >>,
   ret |-> None, error |-> None]

\* Mutant of ApiIntento: the wait between attempts does not grow, and the last
\* failed attempt is followed by a wait and one more attempt.
ApiIntentoEsperaFija(st, r) ==
  LET visto == Append(st.traza, [ev |-> "get", r |-> r]) IN
  IF ~IntentoFalla(r)
    THEN [st EXCEPT !.pc = "retorno", !.traza = visto, !.ret = Some(r.cuerpo[1])]
  ELSE IF st.attempt = MAX_RETRIES
    THEN [st EXCEPT !.pc = "excepcion", !.traza = visto,
                    !.error = Some("Error: " \o MensajeFallo(r))]
  ELSE [st EXCEPT !.attempt = st.attempt + 1,
                  !.traza = Append(visto, [ev |-> "sleep", seg |-> 2])]

\* one iteration of "for attempt in range(MAX_RETRIES)" that receives r;
\* traza records every requests.get and every time.sleep in order
ApiIntento(st, r) ==
  LET visto == Append(st.traza, [ev |-> "get", r |-> r]) IN
  IF ~IntentoFalla(r)
    THEN [st EXCEPT !.pc = "retorno", !.traza = visto, !.ret = Some(r.cuerpo[1])]
  ELSE IF st.attempt = MAX_RETRIES - 1
    THEN [st EXCEPT !.pc = "excepcion", !.traza = visto,
                    !.error = Some("Error después de "
                                      \o SubSeq(Digitos, MAX_RETRIES + 1, MAX_RETRIES + 1)
                                      \o " intentos: " \o MensajeFallo(r))]
  ELSE [st EXCEPT !.attempt = st.attempt + 1,
                  !.traza = Append(visto, [ev |-> "sleep", seg |-> (st.attempt + 1) * 2])]

\* the whole call, fed the answers rs[1], rs[2], ... of the successive attempts
RECURSIVE ApiCorrer(_, _)
ApiCorrer(st, rs) ==
  IF st.pc # "intento" \/ rs = << >> THEN st
  ELSE ApiCorrer(ApiIntento(st, Head(rs)), Tail(rs))

_make_api_request(endpoint, rs) == ApiCorrer(ApiInicial(endpoint), rs)

(***************************************************************************)
(* Python values used by the handlers                                      *)
(***************************************************************************)
\* d.get(k): None when the key is absent
Get(d, k) == IF k \in DOMAIN d THEN Some(d[k]) ELSE None
\* d.get(k, porDefecto)
GetO(d, k, porDefecto) == IF k \in DOMAIN d THEN d[k] ELSE porDefecto
\* the empty dict
DictVacio == [k \in {} |-> 0]
\* truth value of an optional number: None and 0 are false
Verdadero(x) == x # None /\ x[1] # 0

\* str.replace(viejo, nuevo)
RECURSIVE replace(_, _, _)
replace(s, viejo, nuevo) ==
  IF s = "" THEN ""
  ELSE IF startswith(s, viejo)
    THEN nuevo \o replace(SubSeq(s, Len(viejo) + 1, Len(s)), viejo, nuevo)
  ELSE SubSeq(s, 1, 1) \o replace(SubSeq(s, 2, Len(s)), viejo, nuevo)

\* str.split(sep) for a one-character sep: empty pieces are kept
RECURSIVE PrimerSep(_, _, _)
PrimerSep(s, sep, i) ==
  IF i > Len(s) THEN 0
  ELSE IF SubSeq(s, i, i) = sep THEN i ELSE PrimerSep(s, sep, i + 1)
RECURSIVE splitPor(_, _)
splitPor(s, sep) ==
  LET k == PrimerSep(s, sep, 1) IN
  IF k = 0 THEN << s >>
  ELSE << SubSeq(s, 1, k - 1) >> \o splitPor(SubSeq(s, k + 1, Len(s)), sep)

\* Coordinates and other decimals are held in tenths: 334 stands for 33.4.
SoloDigitos(s) == s # "" /\ \A i \in 1..Len(s) : Contiene(SubSeq(s, i, i), Digitos)
ValorDigito(c) == (CHOOSE i \in 1..10 : SubSeq(Digitos, i, i) = c) - 1
RECURSIVE ValorDigitos(_)
ValorDigitos(s) ==
  IF s = "" THEN 0
  ELSE ValorDigitos(SubSeq(s, 1, Len(s) - 1)) * 10 + ValorDigito(SubSeq(s, Len(s), Len(s)))

\* float(s) for the literals [sign] digits [ "." digit ] and "nan", surrounded by
\* optional blanks: <<[nan, v]>>, or None where float raises ValueError.
\* Literals with an exponent or more than one decimal are not among the inputs.
float(s) ==
  LET t == strip(s)
      signo == IF startswith(t, "-") THEN -1 ELSE 1
      u == IF startswith(t, "-") \/ startswith(t, "+") THEN SubSeq(t, 2, Len(t)) ELSE t
      partes == splitPor(u, ".")
  IN  IF lower(u) = "nan" THEN Some([nan |-> TRUE, v |-> 0])
      ELSE IF Len(partes) = 1 /\ SoloDigitos(u)
        THEN Some([nan |-> FALSE, v |-> signo * ValorDigitos(u) * 10])
      ELSE IF Len(partes) = 2 /\ SoloDigitos(partes[1]) /\ SoloDigitos(partes[2])
              /\ Len(partes[2]) = 1
        THEN Some([nan |-> FALSE,
                   v |-> signo * (ValorDigitos(partes[1]) * 10 + ValorDigitos(partes[2]))])
      ELSE None

\* a <= x <= b on floats: every comparison with nan is false
EntreFloat(a, x, b) == ~x.nan /\ a <= x.v /\ x.v <= b

\* the decimal text of a number held in tenths
RECURSIVE TextoNatural(_)
TextoNatural(n) ==
  IF n < 10 THEN SubSeq(Digitos, n + 1, n + 1)
  ELSE TextoNatural(n \div 10) \o SubSeq(Digitos, (n % 10) + 1, (n % 10) + 1)
TextoDecimal(v) ==
  LET a == IF v < 0 THEN -v ELSE v
  IN  (IF v < 0 THEN "-" ELSE "") \o TextoNatural(a \div 10) \o "."
        \o TextoNatural(a % 10)

(***************************************************************************)
(* functools.lru_cache around obtener_hora_ciudad                          *)
(***************************************************************************)
MemoMaxsize == 128

\* entradas is ordered from least to most recently used
MemoVacio == [entradas |-> << >>, hits |-> 0, misses |-> 0]
MemoClaves(m) == { m.entradas[i].clave : i \in DOMAIN m.entradas }
MemoIndice(m, clave) == CHOOSE i \in DOMAIN m.entradas : m.entradas[i].clave = clave
MemoValor(m, clave) == m.entradas[MemoIndice(m, clave)].valor
\* Mutant of MemoAcierto: a hit is counted but leaves the entry where it was.
MemoAciertoSinMover(m, clave) == [m EXCEPT !.hits = @ + 1]

\* a hit: the entry becomes the most recently used
MemoAcierto(m, clave) ==
  LET i == MemoIndice(m, clave)
  IN  [m EXCEPT !.entradas = Append(SubSeq(@, 1, i - 1) \o SubSeq(@, i + 1, Len(@)), @[i]),
                !.hits = @ + 1]
\* a miss, once the wrapped function has returned valor: the least recently
\* used entry leaves when the cache already holds maxsize entries
\* when another thread stored the key while the function ran, nothing is stored
MemoGuardar(m, maxsize, clave, valor) ==
  LET queda == IF Len(m.entradas) >= maxsize THEN Tail(m.entradas) ELSE m.entradas
  IN  IF clave \in MemoClaves(m) THEN [m EXCEPT !.misses = @ + 1]
      ELSE [m EXCEPT !.entradas = Append(queda, [clave |-> clave, valor |-> valor]),
                     !.misses = @ + 1]

(***************************************************************************)
(* Upstream payloads                                                       *)
(***************************************************************************)
\* The emoji of the source are written as bracketed names: the module's
\* strings hold Latin-1 characters only.
WEATHER_ICONS ==
  << << "01", "[sol]" >>, << "02", "[sol y nube]" >>, << "03", "[nube]" >>,
     << "04", "[nube]" >>, << "09", "[chubasco]" >>, << "10", "[lluvia]" >>,
     << "11", "[tormenta]" >>, << "13", "[nieve]" >>, << "50", "[niebla]" >> >>
\* WEATHER_ICONS.get(codigo, <default icon>)
IconoDe(codigo) ==
  IF \E i \in DOMAIN WEATHER_ICONS : WEATHER_ICONS[i][1] = codigo
    THEN WEATHER_ICONS[CHOOSE i \in DOMAIN WEATHER_ICONS : WEATHER_ICONS[i][1] = codigo][2]
    ELSE "[sol tras nube]"

\* str.capitalize()
capitalize(s) ==
  IF s = "" THEN "" ELSE upper(SubSeq(s, 1, 1)) \o lower(SubSeq(s, 2, Len(s)))

\* obtener_coordenadas: the 4-tuple returned and the request it made
obtener_coordenadas(ubicacion, rs) ==
  LET r == _make_api_request(GEOCODING_ENDPOINT, rs)
      llamada == [op |-> GEOCODING_ENDPOINT, params |-> [q |-> ubicacion, limit |-> 1],
                  error |-> r.error, ret |-> r.ret]
      nada == [nombre |-> None, lat |-> None, lon |-> None, pais |-> None,
               llamada |-> llamada]
  IN  IF r.pc = "excepcion" THEN nada
      ELSE IF Len(r.ret[1]) > 0
        THEN LET location == r.ret[1][1]
             IN  [nombre |-> Get(location, "name"), lat |-> Get(location, "lat"),
                  lon |-> Get(location, "lon"), pais |-> Get(location, "country"),
                  llamada |-> llamada]
      ELSE nada

\* the part of obtener_clima_por_coordenadas that reads weather_data after the
\* time zone is known: <<the dict>>, or None with the text of the exception
ConstruirClima(lat, lon, weather_data, nombre_ubicacion, codigo_pais, timezone_info) ==
  IF "weather" \notin DOMAIN weather_data THEN [dict |-> None, exc |-> "'weather'"]
  ELSE IF Len(weather_data.weather) = 0
    THEN [dict |-> None, exc |-> "list index out of range"]
  ELSE IF "main" \notin DOMAIN weather_data THEN [dict |-> None, exc |-> "'main'"]
  ELSE IF "temp" \notin DOMAIN weather_data.main
          \/ "feels_like" \notin DOMAIN weather_data.main
    THEN [dict |-> None,
          exc |-> "type NoneType doesn't define __round__ method"]
  ELSE
    LET weather == weather_data.weather[1]
        main == weather_data.main
        wind == GetO(weather_data, "wind", DictVacio)
    IN  [dict |-> Some(
           [location    |-> nombre_ubicacion
                              \o (IF codigo_pais # "" THEN ", " \o codigo_pais ELSE ""),
            coordinates |-> [lat |-> lat, lon |-> lon],
            temp        |-> main.temp,
            feels_like  |-> main.feels_like,
            humidity    |-> Get(main, "humidity"),
            wind_speed  |-> (GetO(wind, "speed", 0) * 36 + 5) \div 10,
            pressure    |-> Get(main, "pressure"),
            description |-> capitalize(GetO(weather, "description", "")),
            icon        |-> IconoDe(SubSeq(GetO(weather, "icon", ""), 1, 2)),
            time        |-> GetO(timezone_info, "time", "--:--"),
            moment      |-> GetO(timezone_info, "moment", ""),
            weekday     |-> GetO(timezone_info, "weekday", ""),
            date        |-> GetO(timezone_info, "date", "")]),
         exc |-> ""]

\* the text obtener_clima_actual renders from clima_data
TextoClima(clima_data) ==
  clima_data.icon \o " *" \o clima_data.location \o "*\n\n"
    \o "[termometro] Temperatura: " \o TextoDecimal(clima_data.temp) \o "°C\n"
    \o "[pensando] Sensación térmica: " \o TextoDecimal(clima_data.feels_like) \o "°C\n"
    \o "[gota] Humedad: "
    \o (IF clima_data.humidity = None THEN "None"
        ELSE TextoNatural(clima_data.humidity[1])) \o "%\n"
    \o "[viento] Viento: " \o TextoDecimal(clima_data.wind_speed) \o " km/h\n"
    \o "[nota] Condición: " \o clima_data.description \o "\n"
    \o "[reloj] Hora local: " \o clima_data.time

\* strftime('%z') rendered as GMT+hh:mm
TextoDesfase(zona) ==
  LET d == DesfaseUTC(zona)
  IN  "GMT" \o (IF d < 0 THEN "-" ELSE "+") \o DosDigitos(IF d < 0 THEN -d ELSE d) \o ":00"

\* the dict obtener_hora_ciudad returns once the coordinates are known
ConstruirHora(ciudad, codigo_pais, nombre_ciudad, timezone_info) ==
  IF "error" \in DOMAIN timezone_info
    THEN [error |-> "Error al obtener la hora para " \o ciudad \o ": "
                      \o timezone_info.error]
    ELSE [type             |-> "time",
          location         |-> IF codigo_pais # None
                                 THEN nombre_ciudad \o ", " \o codigo_pais[1]
                                 ELSE nombre_ciudad,
          timezone         |-> timezone_info.timezone,
          timezone_display |-> TextoDesfase(timezone_info.timezone),
          time             |-> timezone_info.time,
          time_12          |-> timezone_info.time_12,
          moment           |-> timezone_info.moment,
          weekday          |-> timezone_info.weekday]

(***************************************************************************)
(* The replies                                                             *)
(***************************************************************************)
\* a reply body {'respuesta': valor} or {'error': valor}; valor is either
\* [texto |-> a string] or [dict |-> a dict]
Cuerpo(clave, valor) == [clave |-> clave, valor |-> valor]
Texto(s) == [texto |-> s]
Dict(d) == [dict |-> d]

MENSAJE_BIENVENIDA ==
  "¡Hola! Soy tu asistente de clima y hora. "
    \o "Puedes preguntarme por el clima o la hora en cualquier ciudad o país del mundo. "
    \o "¿En qué puedo ayudarte hoy?"
PREGUNTA_CLIMA ==
  "¿De qué ciudad o país te gustaría saber el clima? "
    \o "Por ejemplo: '¿Qué clima hace en París?'"
PREGUNTA_HORA ==
  "¿De qué ciudad o país te gustaría saber la hora? "
    \o "Por ejemplo: '¿Qué hora es en Tokio?'"
PREGUNTA_GENERICA ==
  "No estoy seguro de qué necesitas. "
    \o "¿Te gustaría saber el clima o la hora en alguna ciudad o país?"
PreguntaAclarar(ubicacion) == "¿Te gustaría saber el clima o la hora en " \o ubicacion \o "?"
NoEncontradaClima(ubicacion) == "No pude encontrar la ubicación: " \o ubicacion
NoEncontradaHora(ciudad) == "No pude encontrar la ubicación de " \o ciudad
ErrorClima(e) == "Error al obtener el clima: " \o e
FORMATO_INVALIDO == "Formato de solicitud inválido"
COORDENADAS_INVALIDAS == "Formato de coordenadas inválido. Por favor, inténtalo de nuevo."
ERROR_UBICACION == "Error al procesar tu ubicación. Por favor, inténtalo de nuevo."
ERROR_SERVIDOR ==
  "[x] Lo siento, ha ocurrido un error en el servidor. Por favor, inténtalo de nuevo más tarde."

(***************************************************************************)
(* The /chat route and the dialogue router, one step per external lookup   *)
(***************************************************************************)
MaxSolicitudes == 2
\* concurrent callers of obtener_hora_ciudad and the calls they make in all
NumHilos == 2
MaxConsultas == 3
Hilos == 1..NumHilos

\* what obtener_hora_ciudad(ciudad) returns: the time object, or an error
\* object when geocoding found nothing
ResultadoHora(ciudad) ==
  ConstruirHora(ciudad, None, ciudad,
                obtener_zona_horaria(-334, -707, Some("CL"), Some(lower(ciudad)),
                                     [zona |-> Some("America/Santiago"), exc |-> None],
                                     [hora |-> 15, minuto |-> 5, dia |-> 3]).ret)
ResultadosHora(ciudad) ==
  { ResultadoHora(ciudad), [error |-> NoEncontradaHora(ciudad)] }
\* the cities of the lookups: NombreCiudad(1) and NombreCiudad(2) are the two
\* oldest entries of a cache filled in order, "lima" is not in it
NombreCiudad(i) == "ciudad" \o TextoNatural(i)
CiudadesPedidas == { NombreCiudad(1), NombreCiudad(2), "lima" }

LocVacio ==
  [ruta |-> "", ubicacion |-> "", ciudad |-> "", codigo_pais |-> None,
   nombre_ciudad |-> "", lat |-> 0, lon |-> 0, api_codigo_pais |-> None,
   weather_data |-> DictVacio, nombre_ubicacion |-> "", rev_codigo_pais |-> ""]

\* where a step leaves the handler: sig = "responder" ends the request with
\* [status, cuerpo]; any other sig is the lookup to make next
Termina(status, cuerpo, m) ==
  [sig |-> "responder", status |-> status, cuerpo |-> cuerpo, loc |-> LocVacio, memo |-> m]
Sigue(sig, l, m) ==
  [sig |-> sig, status |-> 0, cuerpo |-> Cuerpo("", Texto("")), loc |-> l, memo |-> m]

\* obtener_clima_actual up to its geocoding request
IniciarClimaActual(ubicacion, m) ==
  LET ubicacion_lower == strip(lower(ubicacion))
      consulta == IF ubicacion_lower \in Paises THEN InfoPais(ubicacion_lower).capital
                  ELSE ubicacion
  IN  Sigue("geo", [LocVacio EXCEPT !.ruta = "clima", !.ubicacion = consulta], m)

\* the lru_cache wrapper, and obtener_hora_ciudad up to its geocoding request
IniciarHoraCiudad(ciudad, m) ==
  IF ciudad \in MemoClaves(m)
    THEN Termina(200, Cuerpo("respuesta", Dict(MemoValor(m, ciudad))), MemoAcierto(m, ciudad))
    ELSE LET ciudad_lower == lower(ciudad)
             enRegistro == ciudad_lower \in Paises
         IN  Sigue("geo",
                   [LocVacio EXCEPT
                      !.ruta = "hora",
                      !.ciudad = ciudad,
                      !.ubicacion = IF enRegistro THEN InfoPais(ciudad_lower).capital
                                    ELSE ciudad,
                      !.codigo_pais = IF enRegistro THEN Some(InfoPais(ciudad_lower).codigo)
                                      ELSE None],
                   m)

\* Mutant of procesar_mensaje: the greeting is tested after the dispatch on
\* location and intent, so it wins only when nothing else was asked for.
procesar_mensaje_saludo_tardio(mensaje, m) ==
  LET entidades == extraer_entidades(mensaje)
      ubicacion == entidades.ubicacion
  IN  IF ubicacion # None /\ entidades.es_clima THEN IniciarClimaActual(ubicacion[1], m)
      ELSE IF ubicacion # None /\ entidades.es_hora THEN IniciarHoraCiudad(ubicacion[1], m)
      ELSE IF entidades.es_saludo
        THEN Termina(200, Cuerpo("respuesta", Texto(MENSAJE_BIENVENIDA)), m)
      ELSE IF ubicacion = None
        THEN IF entidades.es_clima
               THEN Termina(200, Cuerpo("respuesta", Texto(PREGUNTA_CLIMA)), m)
             ELSE IF entidades.es_hora
               THEN Termina(200, Cuerpo("respuesta", Texto(PREGUNTA_HORA)), m)
             ELSE Termina(200, Cuerpo("respuesta", Texto(PREGUNTA_GENERICA)), m)
      ELSE Termina(200, Cuerpo("respuesta", Texto(PreguntaAclarar(ubicacion[1]))), m)

\* Mutant of procesar_mensaje: the time intent is tested before the weather
\* intent.
procesar_mensaje_hora_primero(mensaje, m) ==
  LET entidades == extraer_entidades(mensaje)
      ubicacion == entidades.ubicacion
  IN  IF entidades.es_saludo
        THEN Termina(200, Cuerpo("respuesta", Texto(MENSAJE_BIENVENIDA)), m)
      ELSE IF ubicacion = None
        THEN IF entidades.es_hora
               THEN Termina(200, Cuerpo("respuesta", Texto(PREGUNTA_HORA)), m)
             ELSE IF entidades.es_clima
               THEN Termina(200, Cuerpo("respuesta", Texto(PREGUNTA_CLIMA)), m)
             ELSE Termina(200, Cuerpo("respuesta", Texto(PREGUNTA_GENERICA)), m)
      ELSE IF entidades.es_hora THEN IniciarHoraCiudad(ubicacion[1], m)
      ELSE IF entidades.es_clima THEN IniciarClimaActual(ubicacion[1], m)
      ELSE Termina(200, Cuerpo("respuesta", Texto(PreguntaAclarar(ubicacion[1]))), m)

procesar_mensaje(mensaje, m) ==
  LET entidades == extraer_entidades(mensaje)
      ubicacion == entidades.ubicacion
  IN  IF entidades.es_saludo
        THEN Termina(200, Cuerpo("respuesta", Texto(MENSAJE_BIENVENIDA)), m)
      ELSE IF ubicacion = None
        THEN IF entidades.es_clima
               THEN Termina(200, Cuerpo("respuesta", Texto(PREGUNTA_CLIMA)), m)
             ELSE IF entidades.es_hora
               THEN Termina(200, Cuerpo("respuesta", Texto(PREGUNTA_HORA)), m)
             ELSE Termina(200, Cuerpo("respuesta", Texto(PREGUNTA_GENERICA)), m)
      ELSE IF entidades.es_clima THEN IniciarClimaActual(ubicacion[1], m)
      ELSE IF entidades.es_hora THEN IniciarHoraCiudad(ubicacion[1], m)
      ELSE Termina(200, Cuerpo("respuesta", Texto(PreguntaAclarar(ubicacion[1]))), m)

\* the "@coordenadas:" branch of chat up to the weather request
ProcesarCoordenadas(mensaje, accuracy, m) ==
  LET coords == splitPor(replace(mensaje, "@coordenadas:", ""), ",")
      invalido == Termina(400, Cuerpo("respuesta", Texto(COORDENADAS_INVALIDAS)), m)
  IN  IF Len(coords) # 2 THEN invalido
      ELSE LET lat == float(coords[1])
               lon == float(coords[2])
           IN  IF lat = None \/ lon = None THEN invalido
               ELSE IF ~EntreFloat(-900, lat[1], 900) \/ ~EntreFloat(-1800, lon[1], 1800)
                 THEN invalido
               ELSE IF accuracy = "texto"   \* round(accuracy) raises TypeError
                 THEN Termina(500, Cuerpo("respuesta", Texto(ERROR_UBICACION)), m)
               ELSE Sigue("clima_api",
                          [LocVacio EXCEPT !.ruta = "coordenadas",
                                           !.lat = lat[1].v, !.lon = lon[1].v],
                          m)

\* chat() from the arrival of the request to the first external lookup
chat(s, m) ==
  IF s.forma \in { "json_invalido", "sin_mensaje" }
    THEN Termina(400, Cuerpo("error", Texto(FORMATO_INVALIDO)), m)
  ELSE IF s.forma = "mensaje_no_texto"   \* data.get('mensaje', '').strip() raises
    THEN Termina(500, Cuerpo("respuesta", Texto(ERROR_SERVIDOR)), m)
  ELSE LET mensaje == strip(s.mensaje)
       IN  IF startswith(mensaje, "@coordenadas:")
             THEN ProcesarCoordenadas(mensaje, s.accuracy, m)
             ELSE procesar_mensaje(mensaje, m)

\* obtener_clima_por_coordenadas raised WeatherAPIError(e): the coordinates
\* branch of chat answers 500, obtener_clima_actual turns it into a sentence
FalloClima(ruta, e, m) ==
  IF ruta = "coordenadas"
    THEN Termina(500, Cuerpo("respuesta", Texto(ErrorClima(ErrorClima(e)))), m)
    ELSE Termina(200, Cuerpo("respuesta", Texto(ErrorClima(ErrorClima(e)))), m)

\* the handler after obtener_coordenadas returned c
TrasCoordenadas(l, c, m) ==
  IF ~(Verdadero(c.lat) /\ Verdadero(c.lon))
    THEN IF l.ruta = "clima"
           THEN Termina(200, Cuerpo("respuesta", Texto(NoEncontradaClima(l.ubicacion))), m)
           ELSE LET valor == [error |-> NoEncontradaHora(l.ubicacion)]
                IN  Termina(200, Cuerpo("respuesta", Dict(valor)),
                            MemoGuardar(m, MemoMaxsize, l.ciudad, valor))
    ELSE IF l.ruta = "clima"
           THEN Sigue("clima_api", [l EXCEPT !.lat = c.lat[1], !.lon = c.lon[1]], m)
           ELSE Sigue("zona",
                      [l EXCEPT !.lat = c.lat[1], !.lon = c.lon[1],
                                !.nombre_ciudad = IF c.nombre = None THEN "None"
                                                  ELSE c.nombre[1],
                                !.api_codigo_pais = c.pais],
                      m)

\* the handler after the weather request ended as r
TrasClima(l, r, m) ==
  IF r.pc = "excepcion" THEN FalloClima(l.ruta, r.error[1], m)
  ELSE IF DOMAIN r.ret[1] = {}
    THEN FalloClima(l.ruta, "No se pudieron obtener datos del clima", m)
  ELSE Sigue("reverse", [l EXCEPT !.weather_data = r.ret[1]], m)

\* the handler after the reverse-geocoding request ended as r
TrasReverse(l, r, m) ==
  IF r.pc = "excepcion" THEN FalloClima(l.ruta, r.error[1], m)
  ELSE IF Len(r.ret[1]) > 0
    THEN Sigue("zona",
               [l EXCEPT !.nombre_ubicacion = GetO(r.ret[1][1], "name", "Desconocido"),
                         !.rev_codigo_pais = GetO(r.ret[1][1], "country", "")],
               m)
  ELSE Sigue("zona", [l EXCEPT !.nombre_ubicacion = "Ubicación", !.rev_codigo_pais = ""], m)

\* the time-zone resolution each route asks for
ZonaDeRuta(l, tf, reloj) ==
  IF l.ruta = "hora"
    THEN obtener_zona_horaria(l.lat, l.lon, l.api_codigo_pais, Some(lower(l.ciudad)),
                              tf, reloj)
    ELSE obtener_zona_horaria(l.lat, l.lon, Some(l.rev_codigo_pais), None, tf, reloj)

\* the handler after obtener_zona_horaria returned timezone_info
TrasZona(l, timezone_info, m) ==
  IF l.ruta = "hora"
    THEN LET valor == ConstruirHora(l.ubicacion, l.codigo_pais, l.nombre_ciudad,
                                    timezone_info)
         IN  Termina(200, Cuerpo("respuesta", Dict(valor)),
                     MemoGuardar(m, MemoMaxsize, l.ciudad, valor))
    ELSE LET c == ConstruirClima(l.lat, l.lon, l.weather_data, l.nombre_ubicacion,
                                 l.rev_codigo_pais, timezone_info)
         IN  IF c.dict = None THEN FalloClima(l.ruta, c.exc, m)
             ELSE IF l.ruta = "coordenadas"
               THEN Termina(200, Cuerpo("respuesta", Dict(c.dict[1])), m)
             ELSE Termina(200, Cuerpo("respuesta", Texto(TextoClima(c.dict[1]))), m)

(***************************************************************************)
(* Inputs of the /chat route                                               *)
(***************************************************************************)
\* the text of a coordinate held in tenths, as a client writes it
TextoCoordenada(v) ==
  IF v % 10 = 0
    THEN (IF v < 0 THEN "-" ELSE "") \o TextoNatural((IF v < 0 THEN -v ELSE v) \div 10)
    ELSE TextoDecimal(v)

\* (lat, lon) pairs in tenths of a degree: inside the ranges, on their edges,
\* and just outside them
ParesCoordenadas ==
  { << -334, -707 >>, << 0, 0 >>, << 900, 1800 >>, << -900, -1800 >>,
    << 910, 0 >>, << 0, -1810 >>, << 901, 0 >>, << -901, 0 >>, << 0, 1801 >>,
    << 0, -1801 >>, << 910, -1810 >> }
Precisiones == { "ausente", "numero", "texto" }

SolicitudBase ==
  [forma |-> "", mensaje |-> "", accuracy |-> "ausente", lat |-> 0, lon |-> 0]

SolicitudesInvalidas ==
  { [SolicitudBase EXCEPT !.forma = f] :
      f \in { "json_invalido", "sin_mensaje", "mensaje_no_texto" } }

SolicitudesCoordenadas ==
  { [SolicitudBase EXCEPT
       !.forma = "coordenadas", !.lat = p[1], !.lon = p[2], !.accuracy = a,
       !.mensaje = "@coordenadas:" \o TextoCoordenada(p[1]) \o ","
                     \o TextoCoordenada(p[2])] :
      p \in ParesCoordenadas, a \in Precisiones }

SolicitudesCoordenadasMal ==
  { [SolicitudBase EXCEPT !.forma = "coordenadas_mal", !.mensaje = t] :
      t \in { "@coordenadas:", "@coordenadas:12.5", "@coordenadas:1,2,3",
              "@coordenadas:abc,10", "@coordenadas:10,", "@coordenadas:nan,0",
              "@coordenadas:norte,este" } }

\* plain messages: every subset of a greeting, a weather word and a time word,
\* alone or followed by "en <country>"
PalabrasMensaje ==
  { "", "hola", "clima", "hora", "hola clima", "hola hora", "clima hora",
    "hola clima hora", "gracias" }
LugaresMensaje == { "", "en chile", "en rusia", "en Japón" }
SolicitudesTexto ==
  { [SolicitudBase EXCEPT !.forma = "texto", !.mensaje = p \o " " \o u] :
      p \in PalabrasMensaje, u \in LugaresMensaje }

Solicitudes ==
  SolicitudesInvalidas \cup SolicitudesCoordenadas \cup SolicitudesCoordenadasMal
    \cup SolicitudesTexto

\* What the three endpoints may answer to one attempt.
LugarEncontrado == [name |-> "Santiago", lat |-> -334, lon |-> -707, country |-> "CL"]
LugarEnEcuador == [name |-> "Macapá", lat |-> 0, lon |-> -511, country |-> "BR"]
LugarEnMeridiano == [name |-> "Accra", lat |-> 56, lon |-> 0, country |-> "GH"]
ErrorApi == Respuesta(401, Some([cod |-> 401, message |-> "Invalid API key"]))
CuerpoIlegible == Respuesta(200, None)

RespuestasGeo ==
  { FalloTransporte, ErrorApi, CuerpoIlegible,
    Respuesta(200, Some(<< >>)),
    Respuesta(200, Some(<< LugarEncontrado >>)),
    Respuesta(200, Some(<< LugarEnEcuador >>)),
    Respuesta(200, Some(<< LugarEnMeridiano >>)) }

ClimaBueno ==
  [weather |-> << [description |-> "cielo claro", icon |-> "01d"] >>,
   main |-> [temp |-> 215, feels_like |-> 208, humidity |-> 40, pressure |-> 1013],
   wind |-> [speed |-> 100]]
ClimaSinMain == [weather |-> << [description |-> "cielo claro", icon |-> "01d"] >>]
RespuestasClima ==
  { FalloTransporte, ErrorApi,
    Respuesta(200, Some(ClimaBueno)),
    Respuesta(200, Some(ClimaSinMain)),
    Respuesta(200, Some(DictVacio)) }

RespuestasReverse ==
  { FalloTransporte, ErrorApi,
    Respuesta(200, Some(<< >>)),
    Respuesta(200, Some(<< [name |-> "Santiago", country |-> "CL"] >>)) }

RespuestasDe(endpoint) ==
  CASE endpoint = GEOCODING_ENDPOINT -> RespuestasGeo
    [] endpoint = WEATHER_ENDPOINT -> RespuestasClima
    [] endpoint = REVERSE_GEOCODING_ENDPOINT -> RespuestasReverse
    [] OTHER -> {}

\* the answers of the successive attempts of one call
Intentos(respuestas) == [1..MAX_RETRIES -> respuestas]

RespuestasTfChat ==
  { [zona |-> None, exc |-> None],
    [zona |-> Some("America/Santiago"), exc |-> None],
    [zona |-> Some("Europe/Kyiv"), exc |-> None] }
RelojesChat == { [hora |-> 15, minuto |-> 5, dia |-> 3] }

SinSolicitud == SolicitudBase
SinRespuesta == [status |-> 0, cuerpo |-> Cuerpo("", Texto(""))]

(***************************************************************************)
(* Specification of the text functions: an input is drawn, a function is   *)
(* applied to it                                                           *)
(***************************************************************************)
TextoQuieto == entrada = [clase |-> "", k |-> 0, forma |-> "", texto |-> ""]
                 /\ resultado = SinResultado
ZonaQuieta == zh_args = SinLlamadaZona /\ zh_ret = SinLlamadaZona
ApiQuieto == api = ApiInactivo
ChatQuieto ==
  /\ pc = "espera" /\ solicitud = SinSolicitud /\ loc = LocVacio /\ llamadas = << >>
  /\ respuesta = SinRespuesta /\ memo = MemoVacio /\ atendidas = 0

\* no thread is inside obtener_hora_ciudad
HiloLibre == [pc |-> "libre", ciudad |-> "", valor |-> None, geocodificaciones |-> 0]
MemoQuieto ==
  /\ hilos = [h \in Hilos |-> HiloLibre]
  /\ historia = [usos |-> << >>, iniciadas |-> 0]

InitTexto ==
  /\ entrada \in Entradas
  /\ resultado = SinResultado
  /\ ZonaQuieta /\ ApiQuieto /\ ChatQuieto /\ MemoQuieto

NormalizarPais ==
  /\ resultado = SinResultado
  /\ entrada.clase = "alias"
  /\ resultado' = [op |-> "_normalizar_pais", valor |-> _normalizar_pais(entrada.texto)]
  /\ UNCHANGED << entrada, varsZona, varsApi, varsChat, varsMemo >>

ExtraerEntidades ==
  /\ resultado = SinResultado
  /\ resultado' = [op |-> "extraer_entidades",
                   valor |-> IF entrada.clase = "no_texto"   \* not isinstance(texto, str)
                               THEN EntidadesVacias
                               ELSE extraer_entidades(entrada.texto)]
  /\ UNCHANGED << entrada, varsZona, varsApi, varsChat, varsMemo >>

NextTexto == NormalizarPais \/ ExtraerEntidades
SpecTexto == InitTexto /\ [][NextTexto]_vars

(***************************************************************************)
(* Specification of the time-zone resolver                                 *)
(***************************************************************************)
InitZona ==
  /\ zh_args \in { [estado |-> "llamada", lat |-> p[1], lon |-> p[2], codigo_pais |-> c,
                    pais_usuario |-> u, tf |-> t, reloj |-> r] :
                     p \in Puntos, c \in CodigosArg, u \in PistasPais,
                     t \in RespuestasTf, r \in Relojes }
  /\ zh_ret = SinLlamadaZona
  /\ TextoQuieto /\ ApiQuieto /\ ChatQuieto /\ MemoQuieto

ObtenerZonaHoraria ==
  /\ zh_ret = SinLlamadaZona
  /\ LET z == obtener_zona_horaria(zh_args.lat, zh_args.lon, zh_args.codigo_pais,
                                   zh_args.pais_usuario, zh_args.tf, zh_args.reloj)
     IN  zh_ret' = [estado |-> "retorno", ret |-> z.ret, consultas |-> z.consultas]
  /\ UNCHANGED << zh_args, varsTexto, varsApi, varsChat, varsMemo >>

NextZona == ObtenerZonaHoraria
SpecZona == InitZona /\ [][NextZona]_vars

(***************************************************************************)
(* Specification of the retrying HTTP client, one step per attempt         *)
(***************************************************************************)
InitApi == ApiQuieto /\ TextoQuieto /\ ZonaQuieta /\ ChatQuieto /\ MemoQuieto

ApiLlamar(endpoint) ==
  /\ api.pc # "intento"
  /\ api' = ApiInicial(endpoint)
  /\ UNCHANGED << varsTexto, varsZona, varsChat, varsMemo >>

ApiPaso(r) ==
  /\ api.pc = "intento"
  /\ api' = ApiIntento(api, r)
  /\ UNCHANGED << varsTexto, varsZona, varsChat, varsMemo >>

NextApi ==
  \/ \E endpoint \in Endpoints : ApiLlamar(endpoint)
  \/ \E r \in RespuestasDe(api.endpoint) : ApiPaso(r)
SpecApi == InitApi /\ [][NextApi]_vars

(***************************************************************************)
(* Specification of the /chat route: requests are handled one at a time    *)
(***************************************************************************)
Init == ChatQuieto /\ TextoQuieto /\ ZonaQuieta /\ ApiQuieto /\ MemoQuieto

\* the handler moves to where step p leaves it
Avanzar(p) ==
  /\ loc' = p.loc
  /\ memo' = p.memo
  /\ IF p.sig = "responder"
       THEN /\ pc' = "respondida"
            /\ respuesta' = [status |-> p.status, cuerpo |-> p.cuerpo]
            /\ atendidas' = atendidas + 1
       ELSE /\ pc' = p.sig
            /\ respuesta' = SinRespuesta
            /\ atendidas' = atendidas

Registro(op, params, r) == [op |-> op, params |-> params, error |-> r.error, ret |-> r.ret]

Recibir(s) ==
  /\ pc = "espera"
  /\ atendidas < MaxSolicitudes
  /\ solicitud' = s
  /\ llamadas' = << >>
  /\ Avanzar(chat(s, memo))
  /\ UNCHANGED << varsTexto, varsZona, varsApi, varsMemo >>

Geocodificar(rs) ==
  /\ pc = "geo"
  /\ LET c == obtener_coordenadas(loc.ubicacion, rs)
     IN  /\ llamadas' = Append(llamadas, c.llamada)
         /\ Avanzar(TrasCoordenadas(loc, c, memo))
  /\ UNCHANGED << solicitud, varsTexto, varsZona, varsApi, varsMemo >>

ConsultarClima(rs) ==
  /\ pc = "clima_api"
  /\ LET r == _make_api_request(WEATHER_ENDPOINT, rs)
     IN  /\ llamadas' = Append(llamadas,
                               Registro(WEATHER_ENDPOINT,
                                        [lat |-> loc.lat, lon |-> loc.lon], r))
         /\ Avanzar(TrasClima(loc, r, memo))
  /\ UNCHANGED << solicitud, varsTexto, varsZona, varsApi, varsMemo >>

GeocodificarInverso(rs) ==
  /\ pc = "reverse"
  /\ LET r == _make_api_request(REVERSE_GEOCODING_ENDPOINT, rs)
     IN  /\ llamadas' = Append(llamadas,
                               Registro(REVERSE_GEOCODING_ENDPOINT,
                                        [lat |-> loc.lat, lon |-> loc.lon], r))
         /\ Avanzar(TrasReverse(loc, r, memo))
  /\ UNCHANGED << solicitud, varsTexto, varsZona, varsApi, varsMemo >>

ResolverZona(tf, reloj) ==
  /\ pc = "zona"
  /\ LET z == ZonaDeRuta(loc, tf, reloj)
     IN  /\ llamadas' = llamadas
                          \o [i \in 1..Len(z.consultas) |->
                                [op |-> "timezone_at", params |-> z.consultas[i],
                                 error |-> tf.exc, ret |-> tf.zona]]
         /\ Avanzar(TrasZona(loc, z.ret, memo))
  /\ UNCHANGED << solicitud, varsTexto, varsZona, varsApi, varsMemo >>

\* the handler returns: its locals are gone and the server waits for the
\* next request; only the memo outlives the request
Finalizar ==
  /\ pc = "respondida"
  /\ pc' = "espera"
  /\ solicitud' = SinSolicitud
  /\ llamadas' = << >>
  /\ respuesta' = SinRespuesta
  /\ UNCHANGED << loc, memo, atendidas, varsTexto, varsZona, varsApi, varsMemo >>

Next ==
  \/ \E s \in Solicitudes : Recibir(s)
  \/ Finalizar
  \/ \E rs \in Intentos(RespuestasGeo) : Geocodificar(rs)
  \/ \E rs \in Intentos(RespuestasClima) : ConsultarClima(rs)
  \/ \E rs \in Intentos(RespuestasReverse) : GeocodificarInverso(rs)
  \/ \E tf \in RespuestasTfChat, reloj \in RelojesChat : ResolverZona(tf, reloj)

Spec == Init /\ [][Next]_vars

(***************************************************************************)
(* Specification of the memoised time lookup under concurrent callers: the *)
(* lru_cache wrapper looks the key up and stores the result under its      *)
(* lock, and runs obtener_hora_ciudad between the two without the lock     *)
(***************************************************************************)
\* a cache that k earlier lookups, for k different cities, have filled
MemoLleno(k) ==
  [entradas |-> [i \in 1..k |->
                   [clave |-> NombreCiudad(i), valor |-> ResultadoHora(NombreCiudad(i))]],
   hits |-> 0, misses |-> k]

InitMemo ==
  /\ \E k \in { MemoMaxsize - 1, MemoMaxsize } :
       /\ memo = MemoLleno(k)
       /\ historia = [usos |-> [i \in 1..k |-> NombreCiudad(i)], iniciadas |-> 0]
  /\ hilos = [h \in Hilos |-> HiloLibre]
  /\ pc = "espera" /\ solicitud = SinSolicitud /\ loc = LocVacio /\ llamadas = << >>
  /\ respuesta = SinRespuesta /\ atendidas = 0
  /\ TextoQuieto /\ ZonaQuieta /\ ApiQuieto

\* thread h calls obtener_hora_ciudad(ciudad): the wrapper answers from the
\* cache, or lets the function run
HoraLlamar(h, ciudad) ==
  /\ hilos[h].pc = "libre"
  /\ historia.iniciadas < MaxConsultas
  /\ IF ciudad \in MemoClaves(memo)
       THEN /\ memo' = MemoAcierto(memo, ciudad)
            /\ hilos' = [hilos EXCEPT ![h] = [pc |-> "hecho", ciudad |-> ciudad,
                                               valor |-> Some(MemoValor(memo, ciudad)),
                                               geocodificaciones |-> 0]]
            /\ historia' = [usos |-> Append(historia.usos, ciudad),
                            iniciadas |-> historia.iniciadas + 1]
       ELSE /\ memo' = memo
            /\ hilos' = [hilos EXCEPT ![h] = [pc |-> "calculando", ciudad |-> ciudad,
                                               valor |-> None, geocodificaciones |-> 0]]
            /\ historia' = [historia EXCEPT !.iniciadas = @ + 1]
  /\ UNCHANGED << pc, solicitud, loc, llamadas, respuesta, atendidas,
                  varsTexto, varsZona, varsApi >>

\* the function run by thread h returns valor after its geocoding request,
\* and the wrapper stores it
HoraTerminar(h, valor) ==
  /\ hilos[h].pc = "calculando"
  /\ memo' = MemoGuardar(memo, MemoMaxsize, hilos[h].ciudad, valor)
  /\ hilos' = [hilos EXCEPT ![h] = [@ EXCEPT !.pc = "hecho", !.valor = Some(valor),
                                               !.geocodificaciones = 1]]
  /\ historia' = IF hilos[h].ciudad \in MemoClaves(memo) THEN historia
                 ELSE [historia EXCEPT !.usos = Append(@, hilos[h].ciudad)]
  /\ UNCHANGED << pc, solicitud, loc, llamadas, respuesta, atendidas,
                  varsTexto, varsZona, varsApi >>

\* thread h hands the result to its caller
HoraRetornar(h) ==
  /\ hilos[h].pc = "hecho"
  /\ hilos' = [hilos EXCEPT ![h] = HiloLibre]
  /\ UNCHANGED << historia, varsChat, varsTexto, varsZona, varsApi >>

NextMemo ==
  \/ \E h \in Hilos, ciudad \in CiudadesPedidas : HoraLlamar(h, ciudad)
  \/ \E h \in Hilos : \E valor \in ResultadosHora(hilos[h].ciudad) : HoraTerminar(h, valor)
  \/ \E h \in Hilos : HoraRetornar(h)
SpecMemo == InitMemo /\ [][NextMemo]_vars

(***************************************************************************)
(* Properties                                                              *)
(***************************************************************************)
\* a request that reaches procesar_mensaje, and the entities extracted from it
EsTextoLlano(s) == s.forma = "texto" /\ ~startswith(strip(s.mensaje), "@coordenadas:")
EntidadesDe(s) == extraer_entidades(strip(s.mensaje))
RespuestaTexto(t) == [status |-> 200, cuerpo |-> Cuerpo("respuesta", Texto(t))]
RespuestaDict(d) == [status |-> 200, cuerpo |-> Cuerpo("respuesta", Dict(d))]

\* C1: when the entities of a message have es_saludo, procesar_mensaje answers
\* the fixed welcome message whatever es_clima, es_hora and ubicacion are, in
\* the step that receives the message: no geocoding, weather or time-zone
\* lookup is made and the time memo (entries, hits, misses) is left as it was.
C1_SaludoCortocircuita ==
  [][ (pc = "espera" /\ EsTextoLlano(solicitud') /\ EntidadesDe(solicitud').es_saludo)
        => /\ pc' = "respondida"
           /\ respuesta' = RespuestaTexto(MENSAJE_BIENVENIDA)
           /\ llamadas' = << >>
           /\ memo' = memo ]_vars

\* C1 witness: a greeting that also asks for weather and time in a country is
\* answered with the welcome message while the memo holds an entry.
C1_Testigo ==
  /\ pc = "respondida"
  /\ EsTextoLlano(solicitud)
  /\ EntidadesDe(solicitud).es_saludo
  /\ EntidadesDe(solicitud).es_clima
  /\ EntidadesDe(solicitud).es_hora
  /\ EntidadesDe(solicitud).ubicacion # None
  /\ respuesta = RespuestaTexto(MENSAJE_BIENVENIDA)
  /\ llamadas = << >>
  /\ memo.entradas # << >>

\* C2: for a message without greeting the outcome is decided by (ubicacion
\* present, es_clima, es_hora) alone.  Without ubicacion: the weather prompt if
\* es_clima, else the time prompt if es_hora, else the generic prompt, with no
\* lookup.  With ubicacion: the weather pipeline if es_clima (the memoised time
\* lookup is not entered then, nor later while the weather pipeline runs), else
\* the time pipeline if es_hora (a memo hit answers the stored value, a miss
\* goes on to geocode the capital), else the question naming the location.
C2_DesenlaceUnico ==
  [][ /\ (pc = "espera" /\ EsTextoLlano(solicitud') /\ ~EntidadesDe(solicitud').es_saludo)
           => LET e == EntidadesDe(solicitud')
                  u == e.ubicacion
                  sinConsulta(t) ==
                    /\ pc' = "respondida" /\ respuesta' = RespuestaTexto(t)
                    /\ llamadas' = << >> /\ memo' = memo
              IN  CASE u = None /\ e.es_clima -> sinConsulta(PREGUNTA_CLIMA)
                    [] u = None /\ ~e.es_clima /\ e.es_hora -> sinConsulta(PREGUNTA_HORA)
                    [] u = None /\ ~e.es_clima /\ ~e.es_hora ->
                         sinConsulta(PREGUNTA_GENERICA)
                    [] u # None /\ e.es_clima ->
                         /\ pc' = "geo" /\ loc'.ruta = "clima"
                         /\ loc'.ubicacion = InfoPais(u[1]).capital
                         /\ llamadas' = << >> /\ memo' = memo
                    [] u # None /\ ~e.es_clima /\ e.es_hora ->
                         IF u[1] \in MemoClaves(memo)
                           THEN /\ pc' = "respondida"
                                /\ respuesta' = RespuestaDict(MemoValor(memo, u[1]))
                                /\ llamadas' = << >>
                                /\ memo'.hits = memo.hits + 1
                           ELSE /\ pc' = "geo" /\ loc'.ruta = "hora" /\ loc'.ciudad = u[1]
                                /\ loc'.ubicacion = InfoPais(u[1]).capital
                                /\ llamadas' = << >> /\ memo' = memo
                    [] u # None /\ ~e.es_clima /\ ~e.es_hora ->
                         sinConsulta(PreguntaAclarar(u[1]))
      /\ (loc.ruta = "clima" => (memo' = memo /\ loc'.ruta \in { "clima", "" })) ]_vars

\* C2 witness: a message with a time word and a country, and no weather word,
\* has gone through the time pipeline and is answered with a time object.
C2_Testigo ==
  /\ pc = "respondida"
  /\ EsTextoLlano(solicitud)
  /\ ~EntidadesDe(solicitud).es_saludo
  /\ ~EntidadesDe(solicitud).es_clima
  /\ EntidadesDe(solicitud).es_hora
  /\ EntidadesDe(solicitud).ubicacion = Some("rusia")
  /\ Len(llamadas) = 1
  /\ llamadas[1].op = GEOCODING_ENDPOINT
  /\ "dict" \in DOMAIN respuesta.cuerpo.valor
  /\ "time" \in DOMAIN respuesta.cuerpo.valor.dict

\* the hint names, in any letter case, a registry country whose ISO code has a
\* candidate list
PistaConZonas(u) ==
  /\ u # None
  /\ lower(u[1]) \in Paises
  /\ InfoPais(lower(u[1])).codigo \in CodigosConZonas
CamposHora == { "time", "time_12", "moment", "weekday" }

\* C3: with a country hint that is a registry entry whose ISO code has a
\* candidate list, obtener_zona_horaria returns the first zone of that list
\* (Europe/Moscow for "rusia") for every point, every codigo_pais argument and
\* whatever the finder would answer, and asks the finder nothing.
C3_ZonaFijada ==
  (zh_ret.estado = "retorno" /\ PistaConZonas(zh_args.pais_usuario))
    => /\ "timezone" \in DOMAIN zh_ret.ret
       /\ zh_ret.ret.timezone
            = ZonasDe(InfoPais(lower(zh_args.pais_usuario[1])).codigo)[1]
       /\ (zh_args.pais_usuario = Some("rusia") => zh_ret.ret.timezone = "Europe/Moscow")
       /\ zh_ret.consultas = << >>

\* C3 witness: hint "rusia" with the coordinates of Vladivostok, a finder that
\* would answer Asia/Vladivostok and a foreign ISO code yields Europe/Moscow.
C3_Testigo ==
  /\ zh_ret.estado = "retorno"
  /\ zh_args.pais_usuario = Some("rusia")
  /\ zh_args.lat = 431 /\ zh_args.lon = 1319
  /\ zh_args.codigo_pais = Some("CL")
  /\ zh_args.tf.zona = Some("Asia/Vladivostok")
  /\ zh_ret.ret.timezone = "Europe/Moscow"

\* C4: without such a hint (absent, not a registry entry, or an ISO code with
\* no candidate list) the finder is asked once, for the point given, and its
\* answer decides: no zone gives an error value with none of the time fields,
\* a zone pytz accepts is the zone of the result, and a zone pytz rejects
\* gives an error value whose text carries that identifier.
C4_ZonaPorCoordenadas ==
  (zh_ret.estado = "retorno" /\ ~PistaConZonas(zh_args.pais_usuario))
    => LET tf == zh_args.tf
           ret == zh_ret.ret
       IN  /\ zh_ret.consultas = << [lat |-> zh_args.lat, lon |-> zh_args.lon] >>
           /\ (tf.exc = None /\ tf.zona = None)
                => ("error" \in DOMAIN ret /\ DOMAIN ret \cap CamposHora = {})
           /\ (tf.exc = None /\ tf.zona # None /\ tf.zona[1] \in ZonasReconocidas)
                => ("timezone" \in DOMAIN ret /\ ret.timezone = tf.zona[1])
           /\ (tf.exc = None /\ tf.zona # None /\ tf.zona[1] \notin ZonasReconocidas)
                => /\ "error" \in DOMAIN ret
                   /\ Contiene(tf.zona[1], ret.error)
                   /\ DOMAIN ret \cap CamposHora = {}

\* C4 witness: hint "japon" (a registry entry without candidate list) and a
\* finder answering a zone pytz rejects give an error naming that zone.
C4_Testigo ==
  /\ zh_ret.estado = "retorno"
  /\ zh_args.pais_usuario = Some("japon")
  /\ zh_args.tf = [zona |-> Some("Europe/Kyiv"), exc |-> None]
  /\ zh_ret.consultas = << [lat |-> zh_args.lat, lon |-> zh_args.lon] >>
  /\ "error" \in DOMAIN zh_ret.ret
  /\ Contiene("Europe/Kyiv", zh_ret.ret.error)

\* C5: every key A of the alias table, written in any letter case and with or
\* without accent marks, resolves through _normalizar_pais to the country the
\* table maps A to.
C5_AliasResuelve ==
  (resultado.op = "_normalizar_pais" /\ entrada.clase = "alias")
    => resultado.valor = Some(variaciones_paises[entrada.k][2])

\* C6: a message made of a greeting, a weather keyword and "en <country>?"
\* for a registry country, written with or without accents, yields es_saludo,
\* es_clima, not es_hora, and that country's registry key as ubicacion.
C6_EjemploDelPais ==
  (resultado.op = "extraer_entidades" /\ entrada.clase = "ejemplo")
    => /\ resultado.valor.es_saludo
       /\ resultado.valor.es_clima
       /\ ~resultado.valor.es_hora
       /\ resultado.valor.ubicacion = Some(PAISES_INFO[entrada.k].pais)

\* the shape of one call of _make_api_request, given what counts as an attempt
\* that succeeded: at most MAX_RETRIES requests; requests and waits alternate,
\* the wait after failed attempt k lasting 2*k seconds; an attempt that
\* succeeded is the last event and its payload is returned; the service error
\* comes only after three failed attempts with no wait after the third; the
\* call ends with a payload or with that error, never with neither
FormaDeLaLlamada(Exito(_)) ==
  LET tr == api.traza
      gets == { i \in DOMAIN tr : tr[i].ev = "get" }
  IN  /\ Cardinality(gets) <= 3
      /\ \A i \in DOMAIN tr :
           IF i % 2 = 1 THEN tr[i].ev = "get"
           ELSE tr[i].ev = "sleep" /\ tr[i].seg = 2 * (i \div 2)
      /\ \A i \in gets :
           IF Exito(tr[i].r)
             THEN /\ i = Len(tr)
                  /\ api.pc = "retorno"
                  /\ api.ret = Some(tr[i].r.cuerpo[1])
                  /\ api.error = None
             ELSE \/ i < Len(tr) /\ i < 5 /\ tr[i + 1].ev = "sleep"
                  \/ i = 5 /\ api.pc = "excepcion" /\ api.error # None /\ api.ret = None
      /\ api.pc \in { "inactivo", "intento", "retorno", "excepcion" }
      /\ api.pc = "intento" => (tr = << >> \/ tr[Len(tr)].ev = "sleep")
      /\ api.pc \in { "retorno", "excepcion" } => (tr # << >> /\ tr[Len(tr)].ev = "get")

\* C7 as amended: an attempt succeeds when it gets a 200 response whose body
\* decodes as JSON; a transport failure, a non-200 response and a response
\* whose body does not decode are failed attempts.
C7_ReintentosEscalonados ==
  FormaDeLaLlamada(LAMBDA r : ~r.transporte /\ r.status = 200 /\ r.cuerpo # None)

\* C7 witness: three failed attempts (no connection, a 200 response that does
\* not decode, a 401), waits of 2 and 4 seconds between them, then the error.
C7_Testigo ==
  /\ api.pc = "excepcion"
  /\ Len(api.traza) = 5
  /\ api.traza[1].r.transporte
  /\ api.traza[2] = [ev |-> "sleep", seg |-> 2]
  /\ api.traza[3].r = CuerpoIlegible
  /\ api.traza[4] = [ev |-> "sleep", seg |-> 4]
  /\ api.traza[5].r.status = 401
  /\ api.error # None

\* C7 as stated: the payload is returned at the first attempt that gets a 200
\* response; failed attempts are transport failures and non-200 responses.
C7_Original ==
  FormaDeLaLlamada(LAMBDA r : ~r.transporte /\ r.status = 200)

\* the reply says the location could not be found (weather path: the sentence;
\* time path: the error object)
EsNoEncontrada ==
  /\ llamadas # << >>
  /\ llamadas[1].op = GEOCODING_ENDPOINT
  /\ \/ respuesta.cuerpo.valor = Texto(NoEncontradaClima(llamadas[1].params.q))
     \/ respuesta.cuerpo.valor = Dict([error |-> NoEncontradaHora(llamadas[1].params.q)])

\* C8: the "could not find location" reply is given exactly when the geocoding
\* call succeeded and returned zero results; a geocoding call that failed is
\* answered with the service error, and a result with a latitude and a
\* longitude, 0 included, counts as found.
C8_NoEncontradaSoloSinResultados ==
  (pc = "respondida" /\ llamadas # << >> /\ llamadas[1].op = GEOCODING_ENDPOINT)
    => (EsNoEncontrada <=> (llamadas[1].error = None /\ llamadas[1].ret = Some(<< >>)))

\* the request is one of the malformed inputs the claim lists
EnRango(s) == -900 <= s.lat /\ s.lat <= 900 /\ -1800 <= s.lon /\ s.lon <= 1800
EntradaMalFormada(s) ==
  \/ s.forma \in { "sin_mensaje", "coordenadas_mal" }
  \/ s.forma = "coordenadas" /\ ~EnRango(s)
\* one of the three upstream calls of the request failed
FalloAscendente ==
  \E i \in DOMAIN llamadas : llamadas[i].op \in Endpoints /\ llamadas[i].error # None

\* C9: a request during which a geocoding, weather or reverse-geocoding call
\* failed is answered with a 5xx status, and a malformed-input request with a
\* 4xx status, for plain messages and for "@coordenadas:" messages alike.
C9_EstadosDeError ==
  pc = "respondida"
    => /\ FalloAscendente => respuesta.status \in 500..599
       /\ EntradaMalFormada(solicitud) => respuesta.status \in 400..499

\* C10: a "@coordenadas:<lat>,<lon>" message with lat outside [-90, 90] or lon
\* outside [-180, 180] is answered 4xx with no lookup made; with both in range
\* the first lookup is the weather request, made with exactly that pair.
C10_CoordenadasValidadas ==
  (solicitud.forma = "coordenadas" /\ pc # "espera")
    => IF ~EnRango(solicitud)
         THEN /\ pc = "respondida"
              /\ respuesta.status \in 400..499
              /\ llamadas = << >>
         ELSE \/ /\ pc = "clima_api" /\ llamadas = << >>
                 /\ loc.lat = solicitud.lat /\ loc.lon = solicitud.lon
              \/ /\ llamadas # << >>
                 /\ llamadas[1].op = WEATHER_ENDPOINT
                 /\ llamadas[1].params = [lat |-> solicitud.lat, lon |-> solicitud.lon]

\* the coordinate lookups of the request that gave no usable zone, and the
\* reason obtener_zona_horaria gives for each
ZonaFallida(i) ==
  /\ llamadas[i].op = "timezone_at"
  /\ llamadas[i].error = None
  /\ \/ llamadas[i].ret = None
     \/ llamadas[i].ret # None /\ llamadas[i].ret[1] \notin ZonasReconocidas
MotivoDeZona(i) ==
  IF llamadas[i].ret = None THEN "No se pudo determinar la zona horaria"
  ELSE llamadas[i].ret[1]
\* the reply is a message that carries the text motivo
RespuestaConMotivo(motivo) ==
  LET v == respuesta.cuerpo.valor
  IN  \/ "texto" \in DOMAIN v /\ Contiene(motivo, v.texto)
      \/ /\ "dict" \in DOMAIN v
         /\ "error" \in DOMAIN v.dict
         /\ Contiene(motivo, v.dict.error)

\* C11: when the time-zone resolution of a request fails (the coordinate
\* lookup returned no zone, or a zone pytz rejects), the reply to that request
\* is a message carrying the reason of the failure, on the time path and on
\* the weather paths alike.
C11_FalloDeZonaInformado ==
  pc = "respondida"
    => \A i \in DOMAIN llamadas : ZonaFallida(i) => RespuestaConMotivo(MotivoDeZona(i))

\* the registry keys of the pinned-zone countries
PaisesDeZonaFija == { "rusia", "estados unidos", "brasil", "mexico" }

\* C12: while a request that names a pinned-zone country is handled, on the
\* weather path as on the time path, no time zone is taken from the
\* coordinates geocoding returned: every resolution uses the first zone of the
\* country's candidate list, so no coordinate lookup of a zone is made.
C12_ZonaFijaEnAmbasRutas ==
  (/\ pc = "respondida"
   /\ EsTextoLlano(solicitud)
   /\ ~EntidadesDe(solicitud).es_saludo
   /\ EntidadesDe(solicitud).ubicacion # None
   /\ EntidadesDe(solicitud).ubicacion[1] \in PaisesDeZonaFija)
    => \A i \in DOMAIN llamadas : llamadas[i].op # "timezone_at"

\* the position in the record of uses of the last store or hit of city c
UltimoUso(c) ==
  CHOOSE i \in DOMAIN historia.usos :
    /\ historia.usos[i] = c
    /\ \A j \in (i + 1)..Len(historia.usos) : historia.usos[j] # c

\* C13: under every interleaving of concurrent obtener_hora_ciudad calls the
\* memo holds at most 128 entries, one per city; an entry leaves only when a
\* new city is stored in a full memo, and it is the entry whose last store or
\* hit is the oldest; a call that finds its city in the memo returns the
\* stored result and makes no geocoding request.
C13_MemoAcotadoLRU ==
  /\ [](/\ Len(memo.entradas) <= 128
        /\ Cardinality(MemoClaves(memo)) = Len(memo.entradas))
  /\ [][ /\ LET salen == MemoClaves(memo) \ MemoClaves(memo')
             IN  salen # {}
                   => /\ Len(memo.entradas) = 128
                      /\ MemoClaves(memo') \ MemoClaves(memo) # {}
                      /\ \E c \in salen :
                           /\ salen = {c}
                           /\ \A d \in MemoClaves(memo) \ {c} : UltimoUso(c) < UltimoUso(d)
          /\ \A h \in Hilos :
               (hilos[h].pc = "libre" /\ hilos'[h].pc # "libre"
                  /\ hilos'[h].ciudad \in MemoClaves(memo))
                 => /\ hilos'[h].pc = "hecho"
                    /\ hilos'[h].valor = Some(MemoValor(memo, hilos'[h].ciudad))
                    /\ hilos'[h].geocodificaciones = 0 ]_vars

\* C13 witness: with a full memo whose oldest entry is ciudad1, one thread
\* has hit ciudad1 without geocoding and another has stored a new city: the
\* memo still holds 128 entries, ciudad1 among them, and ciudad2 has left.
C13_Testigo ==
  /\ Len(memo.entradas) = 128
  /\ \E h, g \in Hilos :
       /\ hilos[h] = [pc |-> "hecho", ciudad |-> NombreCiudad(1),
                      valor |-> Some(ResultadoHora(NombreCiudad(1))),
                      geocodificaciones |-> 0]
       /\ hilos[g].pc = "hecho" /\ hilos[g].ciudad = "lima"
       /\ hilos[g].geocodificaciones = 1
  /\ "lima" \in MemoClaves(memo)
  /\ NombreCiudad(1) \in MemoClaves(memo)
  /\ NombreCiudad(2) \notin MemoClaves(memo)

\* the local hour shown in the "time" field of a resolved zone
HoraMostrada == ValorDigitos(SubSeq(zh_ret.ret.time, 1, 2))

\* C14: the label returned with a local time of hour h is "de la mañana"
\* exactly when 5 <= h < 12, "de la tarde" exactly when 12 <= h < 20 and
\* "de la noche" exactly otherwise, for every h in 0..23; the hour is the one
\* of the UTC clock moved by the zone's offset.
C14_MomentoDelDia ==
  (zh_ret.estado = "retorno" /\ "moment" \in DOMAIN zh_ret.ret)
    => LET h == HoraMostrada
           m == zh_ret.ret.moment
       IN  /\ h \in 0..23
           /\ h = HoraLocal(zh_args.reloj, zh_ret.ret.timezone).hora
           /\ m \in { "de la mañana", "de la tarde", "de la noche" }
           /\ (m = "de la mañana") <=> (5 <= h /\ h < 12)
           /\ (m = "de la tarde") <=> (12 <= h /\ h < 20)
           /\ (m = "de la noche") <=> (h < 5 \/ h >= 20)
           /\ (h \in { 4, 20 } => m = "de la noche")
           /\ (h \in { 5, 11 } => m = "de la mañana")
           /\ (h \in { 12, 19 } => m = "de la tarde")

\* C14 witness: a resolution whose local hour is 20, the first hour of the
\* night, reached from a UTC clock of another hour.
C14_Testigo ==
  /\ zh_ret.estado = "retorno"
  /\ "moment" \in DOMAIN zh_ret.ret
  /\ HoraMostrada = 20
  /\ zh_args.reloj.hora # 20
  /\ zh_ret.ret.moment = "de la noche"

\* the words of the drawn message, and the positions of the markers whose
\* next word resolves to a country
PalabrasEntrada == split(_eliminar_tildes(lower(entrada.texto)))
MarcadoresConPais ==
  { i \in 1..(Len(PalabrasEntrada) - 1) :
      /\ PalabrasEntrada[i] \in { "en", "de", "a" }
      /\ _normalizar_pais(PalabrasEntrada[i + 1]) # None }
PalabrasQueResuelven ==
  { i \in DOMAIN PalabrasEntrada : _normalizar_pais(PalabrasEntrada[i]) # None }

\* C15: the location is the country after the leftmost marker ("en", "de",
\* "a") whose next word resolves, whatever words stand before it and whatever
\* markers before it are followed by a word that does not resolve; only when
\* no marker is followed by a resolving word is it the leftmost word that
\* resolves on its own, and absent when there is none.
C15_DosPasadas ==
  (resultado.op = "extraer_entidades" /\ entrada.clase = "pasadas")
    => LET u == resultado.valor.ubicacion
       IN  /\ \A i \in MarcadoresConPais :
                (\A j \in MarcadoresConPais : i <= j)
                  => u = _normalizar_pais(PalabrasEntrada[i + 1])
           /\ MarcadoresConPais = {}
                => /\ \A i \in PalabrasQueResuelven :
                        (\A j \in PalabrasQueResuelven : i <= j)
                          => u = _normalizar_pais(PalabrasEntrada[i])
                   /\ PalabrasQueResuelven = {} => u = None

\* C15 witness: in "de zzz en peru" the marker "de" is followed by a word
\* that does not resolve, and would itself resolve in the second pass, yet
\* the country after "en" is chosen.
C15_Testigo ==
  /\ resultado.op = "extraer_entidades"
  /\ entrada.clase = "pasadas"
  /\ entrada.texto = "de zzz en peru"
  /\ _normalizar_pais("de") # None
  /\ _normalizar_pais("zzz") = None
  /\ resultado.valor.ubicacion = Some("peru")

\* C16: whatever the argument, the location returned by extraer_entidades is
\* absent or a key of PAISES_INFO (never the word of the message itself, such
\* as a city name), es_pais is true exactly when the location is present, and
\* for an empty argument or one that is not a str the four flags are false
\* and the location is absent.
C16_UbicacionDelRegistro ==
  resultado.op = "extraer_entidades"
    => LET v == resultado.valor
       IN  /\ v.ubicacion = None \/ v.ubicacion[1] \in Paises
           /\ v.es_pais <=> v.ubicacion # None
           /\ (entrada.clase = "no_texto" \/ entrada.texto = "")
                => /\ ~v.es_saludo /\ ~v.es_clima /\ ~v.es_hora /\ ~v.es_pais
                   /\ v.ubicacion = None

\* C16 witness: for a message that names a city after a marker the location
\* returned is a registry key, not the city, and es_pais is set.
C16_Testigo ==
  /\ resultado.op = "extraer_entidades"
  /\ entrada.texto = "hora en Tokio"
  /\ resultado.valor.ubicacion # None
  /\ resultado.valor.ubicacion[1] \in Paises
  /\ resultado.valor.ubicacion[1] # "tokio"
  /\ resultado.valor.es_pais

\* no word of the message is an alias, a registry country, or contains the
\* name of a registry country
SinPaisNombrado ==
  \A i \in DOMAIN PalabrasEntrada :
    /\ PalabrasEntrada[i] \notin ClavesVariaciones
    /\ PalabrasEntrada[i] \notin Paises
    /\ \A p \in Paises : ~Contiene(p, PalabrasEntrada[i])

\* C17: a message none of whose words is an alias or a country name, or
\* contains a country name, has no location: ordinary words and the markers
\* ("es", "a", "en", "de", "y") are not resolved to a country.
C17_SinPaisSinUbicacion ==
  (/\ resultado.op = "extraer_entidades"
   /\ entrada.clase \in { "borde", "pasadas" }
   /\ SinPaisNombrado)
    => resultado.valor.ubicacion = None

\* the flag of extraer_entidades that belongs to a phrase list
BanderaDe(forma, entidades) ==
  CASE forma = "SALUDOS" -> entidades.es_saludo
    [] forma = "PALABRAS_CLIMA" -> entidades.es_clima
    [] forma = "PALABRAS_HORA" -> entidades.es_hora

\* C18: a message consisting of one phrase of SALUDOS, PALABRAS_CLIMA or
\* PALABRAS_HORA, the accented phrases included, sets the flag of the list the
\* phrase belongs to (es_saludo, es_clima, es_hora) in extraer_entidades.
C18_CadaFraseMarcaSuBandera ==
  (resultado.op = "extraer_entidades" /\ entrada.clase = "frase")
    => BanderaDe(entrada.forma, resultado.valor)

\* the locations whose time lookup ended in an error value that the memo holds
ErroresGuardados ==
  { c \in MemoClaves(memo) : "error" \in DOMAIN MemoValor(memo, c) }

\* C19: the time memo holds only successful results, and a time request for a
\* location whose earlier lookup ended in an error value is not answered from
\* the memo: it goes on to a fresh geocoding lookup.
C19_MemoSoloExitos ==
  /\ [](ErroresGuardados = {})
  /\ [][ (/\ pc = "espera" /\ EsTextoLlano(solicitud')
          /\ ~EntidadesDe(solicitud').es_saludo
          /\ ~EntidadesDe(solicitud').es_clima
          /\ EntidadesDe(solicitud').es_hora
          /\ EntidadesDe(solicitud').ubicacion # None
          /\ EntidadesDe(solicitud').ubicacion[1] \in ErroresGuardados)
            => (pc' = "geo" /\ loc'.ruta = "hora") ]_vars
====
